---------------------------- MODULE Spec2Model ----------------------------
(***************************************************************************)
(* Dynamic program-analysis engine (homework3_dynamic_analysis):           *)
(*   tracer_engine.py      Tracer            (Trace Recorder)              *)
(*   execution_indexer.py  ExecutionIndexer, IndexedTracer                 *)
(*   dynamic_slicer.py     DynamicSlicer                                   *)
(*   fault_localization.py FaultLocalizer                                  *)
(* Each component is a group of variables with its own actions; a          *)
(* specification runs the components a group of properties is about.       *)
(***************************************************************************)
EXTENDS Integers, Sequences, FiniteSets, TLC

VARIABLES
    \* ---- Tracer (tracer_engine.py) and the interpreter's hook slot
    settrace,         \* the process-wide hook set by sys.settrace
    is_tracing,       \* Tracer.is_tracing
    trace_log,        \* Tracer.trace_log : sequence of TraceEvent
    previous_locals,  \* Tracer.previous_locals : name -> value snapshot
    pc,               \* position of trace_execution: idle / running / stopping
    pending,          \* how the traced callable ended (what the try block holds)
    outcome,          \* what trace_execution delivered to its caller
    call_args,        \* the arguments trace_execution passes to func
    \* ---- ExecutionIndexer / IndexedTracer (execution_indexer.py)
    context_stack,    \* ExecutionIndexer.context_stack
    instance_counters,\* ExecutionIndexer.instance_counters : (context, line) -> count
    execution_points, \* ExecutionIndexer.execution_points
    current_index,    \* ExecutionIndexer.current_index
    last_point,       \* point returned by record_execution in the last operation
    last_op,          \* the indexer operation that ran last
    indexed_trace,    \* value returned by the last trace_with_indexing
    \* ---- DynamicSlicer (dynamic_slicer.py)
    relevant_lines,        \* DynamicSlicer.relevant_lines
    variables_of_interest, \* DynamicSlicer.variables_of_interest
    data_deps,             \* DynamicSlicer.data_deps : line -> set of names
    control_deps,          \* DynamicSlicer.control_deps : line -> set of lines
    spc,                   \* position of compute_dynamic_slice: idle / walk
    query,                 \* arguments of the running / last compute_dynamic_slice
    target_event_idx,      \* local target_event_idx (0-based; None == -1)
    walk_i,                \* loop variable i of _backward_traverse (0-based)
    slice_result,          \* value returned by the last compute_dynamic_slice
    \* ---- FaultLocalizer (fault_localization.py)
    test_cases,       \* FaultLocalizer.test_cases : sequence of TestCase
    all_lines,        \* FaultLocalizer.all_lines
    spectra_matrix,   \* FaultLocalizer.spectra_matrix : test name -> covered lines
    fl_pc,            \* position of run_tests: idle / invoke / tracing
    test_i,           \* position of the loop of run_tests in test_cases (1-based)
    run_outcome,      \* how the last run_tests ended: none / returned / raised
    sessions,         \* per test: the 'line' statements of its last recorder session
    fl_result,        \* value returned by the last compute_suspiciousness /
                      \* get_most_suspicious_line
    \* ---- the score formulas of the FaultLocalizer, applied on their own
    counts,           \* arguments: failed_covering, total_failed, passed_covering,
                      \* total_passed
    score,            \* value returned by the last _compute_tarantula /
                      \* _compute_ochiai
    \* ---- clients of the Tracer
    executed_lines,   \* value returned by the last Tracer.get_executed_lines
    inner,            \* a second Tracer object, created by the traced callable
    last_hook,        \* the last call of Tracer.trace_function: its frame's file,
                      \* is_tracing at the call, and a bit that flips per call
    \* ---- a caller of the DynamicSlicer
    held,             \* a SliceResult the caller keeps from an earlier query
    held_shared,      \* whether its set and dicts are the objects the slicer's
                      \* attributes are bound to
    \* ---- BankAccount and the threads of a run (heisenbug_demo.py)
    balance,          \* BankAccount.balance
    transaction_log,  \* BankAccount.transaction_log
    lock,             \* BankAccount.lock: the thread that holds it, or NoThread
    threads,          \* per thread of the run: its position in transfer and its
                      \* local current_balance
    use_lock,         \* the use_lock argument the run passes to transfer
    run_pc            \* position of the run: idle / starting / joining / done

tracerVars == <<settrace, is_tracing, trace_log, previous_locals, pc, pending, outcome,
                call_args>>

indexerVars == <<context_stack, instance_counters, execution_points, current_index,
                 last_point, last_op, indexed_trace>>

slicerVars == <<relevant_lines, variables_of_interest, data_deps, control_deps,
                spc, query, target_event_idx, walk_i, slice_result>>

localizerVars == <<test_cases, all_lines, spectra_matrix, fl_pc, test_i, run_outcome,
                   sessions, fl_result>>

scoreVars == <<counts, score>>

clientVars == <<executed_lines, inner>>

hookVars == <<last_hook>>

resultVars == <<held, held_shared>>

accountVars == <<balance, transaction_log, lock, threads, use_lock, run_pc>>

vars == <<tracerVars, indexerVars, slicerVars, localizerVars, scoreVars, clientVars,
          hookVars, resultVars, accountVars>>

(***************************************************************************)
(* Small helpers                                                           *)
(***************************************************************************)
EmptyMap == [k \in {} |-> 0]

Range(s) == {s[i] : i \in 1..Len(s)}

\* dict.get(k) with a default
MapGet(m, k, default) == IF k \in DOMAIN m THEN m[k] ELSE default

\* m[k] = v on a dict (adds the key when absent)
MapPut(m, k, v) == [x \in (DOMAIN m) \cup {k} |-> IF x = k THEN v ELSE m[x]]

(***************************************************************************)
(* Tracer                                                                  *)
(***************************************************************************)
NoHook == "None"

TraceFunctionHook == "Tracer.trace_function"

\* Source units a frame can belong to: a user file, the tracer's own file,
\* a synthetic unit such as "<string>".
UserFile == "target_programs.py"

TracerFile == "tracer_engine.py"

SyntheticFile == "<string>"

\* the test of line 67: 'tracer_engine' in filename or '<' in filename
\* (a variant that tests for the tracer's own file only)
IsSkippedFileOwnOnly(filename) == filename \in {TracerFile}

IsSkippedFile(filename) == filename \in {TracerFile, SyntheticFile}

\* Iteration order of the dicts of one code object (f_locals keeps the order
\* of the function's variable slots).
NameOrder == <<"x", "y", "a", "b", "c", "d", "__t", "max_val">>

NamesIn(S) == SelectSeq(NameOrder, LAMBDA n : n \in S)

AccessTag(op, name) == <<op, name>>

WriteTags(names) == [i \in 1..Len(names) |-> AccessTag("write", names[i])]

ReadTags(names) == [i \in 1..Len(names) |-> AccessTag("read", names[i])]

\* Tracer._detect_memory_access: writes (new name, or changed value) in the
\* order of current_locals, then reads (present before with an equal value)
\* in the order of previous_locals.
\* (a variant whose reads are all the names present before, changed or not)
DetectMemoryAccessReadsAll(prev, current_locals) ==
    LET written == {n \in DOMAIN current_locals :
                       IF n \in DOMAIN prev THEN prev[n] # current_locals[n] ELSE TRUE}
        readn   == {n \in DOMAIN prev : n \in DOMAIN current_locals}
    IN  WriteTags(NamesIn(written)) \o ReadTags(NamesIn(readn))

DetectMemoryAccess(prev, current_locals) ==
    LET written == {n \in DOMAIN current_locals :
                       \/ n \notin DOMAIN prev
                       \/ prev[n] # current_locals[n]}
        readn   == {n \in DOMAIN prev :
                       /\ n \in DOMAIN current_locals
                       /\ prev[n] = current_locals[n]}
    IN  WriteTags(NamesIn(written)) \o ReadTags(NamesIn(readn))

\* deepcopy of the frame's locals: the values modelled are immutable integers,
\* whose copy is the value itself.
SnapshotLocals(f_locals) == [n \in DOMAIN f_locals |-> f_locals[n]]

TraceEvent(event, frame, current_locals, memory_access) ==
    [event_type    |-> event,
     filename      |-> frame.filename,
     line_number   |-> frame.f_lineno,
     function_name |-> frame.co_name,
     local_vars    |-> current_locals,
     memory_access |-> memory_access]

NoOutcome == [kind |-> "none", val |-> 0, err |-> "none"]

ValueOutcome(r) == [kind |-> "value", val |-> r, err |-> "none"]

ErrorOutcome(e) == [kind |-> "error", val |-> 0, err |-> e]

TracerInit ==
    /\ settrace = NoHook
    /\ is_tracing = FALSE
    /\ trace_log = <<>>
    /\ previous_locals = EmptyMap
    /\ pc = "idle"
    /\ pending = NoOutcome
    /\ outcome = NoOutcome
    /\ call_args = <<>>

\* Tracer.start_trace
\* (a variant that keeps previous_locals)
StartTraceBodyKeepsLocals ==
    /\ is_tracing' = TRUE
    /\ trace_log' = <<>>
    /\ UNCHANGED previous_locals
    /\ settrace' = TraceFunctionHook

StartTraceBody ==
    /\ is_tracing' = TRUE
    /\ trace_log' = <<>>
    /\ previous_locals' = EmptyMap
    /\ settrace' = TraceFunctionHook

\* trace_execution(func, *args) up to the call of func: start_trace(), then
\* func(*args) runs.
StartTrace(args) ==
    /\ pc = "idle"
    /\ StartTraceBody
    /\ pc' = "running"
    /\ call_args' = args
    /\ pending' = NoOutcome
    /\ outcome' = NoOutcome

\* Tracer.trace_function, invoked by the interpreter through the hook slot.
\* (a variant that stores the frame's own dict of locals, not a copy: every
\* event of the frame shows the values of the last one)
TraceFunctionSharesLocals(frame, event) ==
    /\ settrace = TraceFunctionHook
    /\ IF ~is_tracing
       THEN UNCHANGED <<trace_log, previous_locals>>
       ELSE IF IsSkippedFile(frame.filename)
       THEN UNCHANGED <<trace_log, previous_locals>>
       ELSE LET current_locals == frame.f_locals
                memory_access  == DetectMemoryAccess(previous_locals, current_locals)
                shared == [k \in 1..Len(trace_log) |->
                              [trace_log[k] EXCEPT !.local_vars = current_locals]]
            IN  /\ trace_log' = Append(shared,
                       TraceEvent(event, frame, current_locals, memory_access))
                /\ previous_locals' = current_locals
    /\ UNCHANGED <<settrace, is_tracing, pc, pending, outcome, call_args>>

TraceFunction(frame, event) ==
    /\ settrace = TraceFunctionHook
    /\ IF ~is_tracing
       THEN UNCHANGED <<trace_log, previous_locals>>
       ELSE IF IsSkippedFile(frame.filename)
       THEN UNCHANGED <<trace_log, previous_locals>>
       ELSE LET current_locals == SnapshotLocals(frame.f_locals)
                memory_access  == DetectMemoryAccess(previous_locals, current_locals)
            IN  /\ trace_log' = Append(trace_log,
                       TraceEvent(event, frame, current_locals, memory_access))
                /\ previous_locals' = current_locals
    /\ UNCHANGED <<settrace, is_tracing, pc, pending, outcome, call_args>>

\* func returns r: the try block ends normally and the finally block enters
\* stop_trace, whose first statement clears is_tracing.
FuncReturn(r) ==
    /\ pc = "running"
    /\ pending' = ValueOutcome(r)
    /\ is_tracing' = FALSE
    /\ pc' = "stopping"
    /\ UNCHANGED <<settrace, trace_log, previous_locals, outcome, call_args>>

\* func raises e: the finally block enters stop_trace in the same way.
FuncRaiseNoFinally(e) ==
    /\ pc = "running"
    /\ pc' = "idle"
    /\ outcome' = ErrorOutcome(e)
    /\ UNCHANGED <<settrace, is_tracing, trace_log, previous_locals, pending, call_args>>

FuncRaiseClearsTrace(e) ==
    /\ pc = "running"
    /\ pending' = ErrorOutcome(e)
    /\ is_tracing' = FALSE
    /\ trace_log' = <<>>
    /\ pc' = "stopping"
    /\ UNCHANGED <<settrace, previous_locals, outcome, call_args>>

FuncRaise(e) ==
    /\ pc = "running"
    /\ pending' = ErrorOutcome(e)
    /\ is_tracing' = FALSE
    /\ pc' = "stopping"
    /\ UNCHANGED <<settrace, trace_log, previous_locals, outcome, call_args>>

\* The rest of stop_trace, sys.settrace(None), and then trace_execution
\* leaves: it returns the result or lets the pending exception propagate.
FinishTrace ==
    /\ pc = "stopping"
    /\ settrace' = NoHook
    /\ outcome' = pending
    /\ pending' = NoOutcome
    /\ pc' = "idle"
    /\ UNCHANGED <<is_tracing, trace_log, previous_locals, call_args>>

\* Tracer.get_executed_lines: the line numbers of the 'line' events, in order
\* (a variant that lists the line number of every event)
GetExecutedLinesOfAllEvents(log) == [k \in 1..Len(log) |-> log[k].line_number]

GetExecutedLines(log) ==
    LET kept == SelectSeq(log, LAMBDA ev : ev.event_type = "line")
    IN  [k \in 1..Len(kept) |-> kept[k].line_number]

NoLines == [op |-> "none", lines |-> <<>>]

\* a client calls tracer.get_executed_lines() between two sessions
GetLines ==
    /\ pc = "idle"
    /\ executed_lines' = [op    |-> "get_executed_lines",
                          lines |-> GetExecutedLines(trace_log)]
    /\ UNCHANGED inner

(***************************************************************************)
(* A second Tracer object.  The traced callable creates it and runs a      *)
(* session of its own on it; the object is held as a value.                *)
(***************************************************************************)
InnerHook == "inner.trace_function"

TracerObject(tracing, log, prev) ==
    [is_tracing |-> tracing, trace_log |-> log, previous_locals |-> prev]

\* Tracer.__init__
NewTracer == TracerObject(FALSE, <<>>, EmptyMap)

\* Tracer.trace_function on the Tracer object self: the object afterwards
TraceFunctionOf(self, frame, event) ==
    IF ~self.is_tracing
    THEN self
    ELSE IF IsSkippedFile(frame.filename)
    THEN self
    ELSE LET current_locals == SnapshotLocals(frame.f_locals)
             memory_access  == DetectMemoryAccess(self.previous_locals, current_locals)
         IN  TracerObject(self.is_tracing,
                 Append(self.trace_log,
                        TraceEvent(event, frame, current_locals, memory_access)),
                 current_locals)

\* the callable traced by the first Tracer calls inner.start_trace()
InnerStartTrace ==
    /\ pc = "running"
    /\ inner' = TracerObject(TRUE, <<>>, EmptyMap)
    /\ settrace' = InnerHook
    /\ UNCHANGED <<is_tracing, trace_log, previous_locals, pc, pending, outcome,
                   call_args, executed_lines>>

\* the interpreter reports an event of a frame entered during the inner
\* session to the hook in the slot
InnerTraceFunction(frame, event) ==
    /\ pc = "running"
    /\ settrace = InnerHook
    /\ inner' = TraceFunctionOf(inner, frame, event)
    /\ UNCHANGED <<tracerVars, executed_lines>>

\* The frame of the callable was entered under the first Tracer, whose
\* trace_function it keeps as its local trace function (the value returned at
\* line 97): the interpreter reports the frame's line events to it as long
\* as the slot holds a hook.
OuterLocalTrace(frame) ==
    LET self == TraceFunctionOf(TracerObject(is_tracing, trace_log, previous_locals),
                                frame, "line")
    IN  /\ pc = "running"
        /\ settrace = InnerHook
        /\ trace_log' = self.trace_log
        /\ previous_locals' = self.previous_locals
        /\ UNCHANGED <<settrace, is_tracing, pc, pending, outcome, call_args, clientVars>>

\* the callable calls inner.stop_trace()
InnerStopTrace ==
    /\ pc = "running"
    /\ inner.is_tracing
    /\ inner' = [inner EXCEPT !.is_tracing = FALSE]
    /\ settrace' = NoHook
    /\ UNCHANGED <<is_tracing, trace_log, previous_locals, pc, pending, outcome,
                   call_args, executed_lines>>

ClientInit ==
    /\ executed_lines = NoLines
    /\ inner = NewTracer

(***************************************************************************)
(* ExecutionIndexer                                                        *)
(***************************************************************************)
ExecutionPoint(context, statement, instance) ==
    [context |-> context, statement |-> statement, instance |-> instance]

\* ExecutionPoint.__eq__: all three fields match
PointEq(p, q) ==
    /\ p.context = q.context
    /\ p.statement = q.statement
    /\ p.instance = q.instance

NoPoint == ExecutionPoint(<<>>, 0, 0)

\* the list of (event, point) tuples of the first n events
RECURSIVE IndexedPairs(_, _, _)
IndexedPairs(events, points, n) ==
    IF n = 0 THEN <<>>
    ELSE Append(IndexedPairs(events, points, n - 1), <<events[n], points[n]>>)

\* The indexer object as a value: its four fields.
IxState ==
    [context_stack     |-> context_stack,
     instance_counters |-> instance_counters,
     execution_points  |-> execution_points,
     current_index     |-> current_index]

\* ExecutionIndexer.__init__
IxNew ==
    [context_stack     |-> <<>>,
     instance_counters |-> EmptyMap,
     execution_points  |-> <<>>,
     current_index     |-> 0]

SetIx(ix) ==
    /\ context_stack' = ix.context_stack
    /\ instance_counters' = ix.instance_counters
    /\ execution_points' = ix.execution_points
    /\ current_index' = ix.current_index

\* ExecutionIndexer.push_context
PushContextResetsCounters(ix, function_name) ==
    [ix EXCEPT !.context_stack = Append(@, function_name),
               !.instance_counters = EmptyMap]

PushContext(ix, function_name) ==
    [ix EXCEPT !.context_stack = Append(@, function_name)]

\* ExecutionIndexer.pop_context: the new state and the error raised, if any.
\* list.pop() on an empty list raises IndexError; the guard of line 67 keeps
\* the call from being made.
PopContextUnguarded(ix) ==
    IF ix.context_stack # <<>>
    THEN [state  |-> [ix EXCEPT !.context_stack = SubSeq(@, 1, Len(@) - 1)],
          raised |-> "none"]
    ELSE [state |-> ix, raised |-> "IndexError"]

PopContext(ix) ==
    IF ix.context_stack # <<>>
    THEN [state  |-> [ix EXCEPT !.context_stack = SubSeq(@, 1, Len(@) - 1)],
          raised |-> "none"]
    ELSE [state |-> ix, raised |-> "none"]

\* ExecutionIndexer.get_current_context
GetCurrentContext(ix) == ix.context_stack

\* ExecutionIndexer.record_execution: the new state; the point returned is
\* the last element of its execution_points.
RecordExecutionNoIncrement(ix, line_number) ==
    LET context     == GetCurrentContext(ix)
        counter_key == <<context, line_number>>
        instance    == MapGet(ix.instance_counters, counter_key, 1)
        exec_point  == ExecutionPoint(context, line_number, instance)
    IN  [ix EXCEPT !.instance_counters = MapPut(@, counter_key, instance),
                   !.execution_points = Append(@, exec_point),
                   !.current_index = @ + 1]

RecordExecution(ix, line_number) ==
    LET context     == GetCurrentContext(ix)
        counter_key == <<context, line_number>>
        instance    == MapGet(ix.instance_counters, counter_key, 0) + 1
        exec_point  == ExecutionPoint(context, line_number, instance)
    IN  [ix EXCEPT !.instance_counters = MapPut(@, counter_key, instance),
                   !.execution_points = Append(@, exec_point),
                   !.current_index = @ + 1]

\* ExecutionIndexer.reset
ResetKeepsCounters(ix) ==
    [ix EXCEPT !.context_stack = <<>>,
               !.execution_points = <<>>,
               !.current_index = 0]

Reset(ix) ==
    [context_stack     |-> <<>>,
     instance_counters |-> EmptyMap,
     execution_points  |-> <<>>,
     current_index     |-> 0]

\* What the indexer was last asked to do: the operation, the error it raised
\* and, for pop_context, whether the stack was empty when it was called.
Op(name, raised, on_empty) == [op |-> name, raised |-> raised, on_empty |-> on_empty]

IndexerInit ==
    /\ context_stack = IxNew.context_stack
    /\ instance_counters = IxNew.instance_counters
    /\ execution_points = IxNew.execution_points
    /\ current_index = IxNew.current_index
    /\ last_point = NoPoint
    /\ last_op = Op("init", "none", FALSE)
    /\ indexed_trace = <<>>

\* a client calls indexer.push_context(function_name)
Push(function_name) ==
    /\ SetIx(PushContext(IxState, function_name))
    /\ last_op' = Op("push", "none", FALSE)
    /\ last_point' = NoPoint
    /\ UNCHANGED indexed_trace

\* a client calls indexer.pop_context()
Pop ==
    LET r == PopContext(IxState)
    IN  /\ SetIx(r.state)
        /\ last_op' = Op("pop", r.raised, context_stack = <<>>)
        /\ last_point' = NoPoint
        /\ UNCHANGED indexed_trace

\* a client calls indexer.record_execution(line_number)
Record(line_number) ==
    LET ix == RecordExecution(IxState, line_number)
    IN  /\ SetIx(ix)
        /\ last_point' = ix.execution_points[Len(ix.execution_points)]
        /\ last_op' = Op("record", "none", FALSE)
        /\ UNCHANGED indexed_trace

\* a client calls indexer.reset()
ResetIndexer ==
    /\ SetIx(Reset(IxState))
    /\ last_op' = Op("reset", "none", FALSE)
    /\ last_point' = NoPoint
    /\ UNCHANGED indexed_trace

(***************************************************************************)
(* IndexedTracer                                                           *)
(***************************************************************************)
\* One iteration of the loop of trace_with_indexing (lines 205-218): the
\* context change for a call / return event, then record_execution.
\* (a variant that records the point first and changes the context after)
IndexEventRecordFirst(ix, trace_event) ==
    LET ix1 == RecordExecution(ix, trace_event.line_number)
    IN  IF trace_event.event_type = "call"
        THEN PushContext(ix1, trace_event.function_name)
        ELSE IF trace_event.event_type = "return"
        THEN PopContext(ix1).state
        ELSE ix1

IndexEvent(ix, trace_event) ==
    LET ix1 == IF trace_event.event_type = "call"
               THEN PushContext(ix, trace_event.function_name)
               ELSE IF trace_event.event_type = "return"
               THEN PopContext(ix).state
               ELSE ix
    IN  RecordExecution(ix1, trace_event.line_number)

RECURSIVE IndexLoop(_, _, _)
\* The loop of trace_with_indexing from event k (1-based) on; the result is
\* the indexer's final state, whose execution_points are the points recorded.
IndexLoop(ix, trace, k) ==
    IF k > Len(trace)
    THEN ix
    ELSE IndexLoop(IndexEvent(ix, trace[k]), trace, k + 1)

\* IndexedTracer.trace_with_indexing: the final indexer state and the list
\* of (trace_event, exec_point) pairs.
TraceWithIndexingSkipsExceptions(trace) ==
    LET kept == SelectSeq(trace, LAMBDA ev : ev.event_type # "exception")
        ix   == IndexLoop(Reset(IxState), kept, 1)
    IN  [state   |-> ix,
         indexed |-> IndexedPairs(kept, ix.execution_points, Len(kept))]

TraceWithIndexing(trace) ==
    LET ix == IndexLoop(Reset(IxState), trace, 1)
    IN  [state   |-> ix,
         indexed |-> IndexedPairs(trace, ix.execution_points, Len(trace))]

\* a client calls indexed_tracer.trace_with_indexing(tracer.get_trace_log())
IndexTrace ==
    LET r == TraceWithIndexing(trace_log)
    IN  /\ pc = "idle"
        /\ SetIx(r.state)
        /\ indexed_trace' = r.indexed
        /\ last_point' = IF r.state.execution_points = <<>>
                         THEN NoPoint
                         ELSE r.state.execution_points[Len(r.state.execution_points)]
        /\ last_op' = Op("trace_with_indexing", "none", FALSE)

(***************************************************************************)
(* DynamicSlicer                                                           *)
(***************************************************************************)
\* _find_target_event returns None when no event matches; indices are the
\* 0-based indices of the Python list, event i is trace[i + 1].
NoneIdx == -1

SliceResult(target_line, target_var, lines, ddeps, cdeps) ==
    [target_line          |-> target_line,
     target_var           |-> target_var,
     relevant_lines       |-> lines,
     data_dependencies    |-> ddeps,
     control_dependencies |-> cdeps]

NoSliceResult == SliceResult(0, "", {}, EmptyMap, EmptyMap)

NoQuery == [execution_trace |-> <<>>, target_line |-> 0, target_var |-> ""]

\* the condition of line 93
IsTargetEvent(event, target_line, target_var) ==
    /\ event.line_number = target_line
    /\ target_var \in DOMAIN event.local_vars

RECURSIVE FindFrom(_, _, _, _)
\* the loop of _find_target_event, at 0-based index i going down
FindFrom(trace, target_line, target_var, i) ==
    IF i < 0
    THEN NoneIdx
    ELSE IF IsTargetEvent(trace[i + 1], target_line, target_var)
    THEN i
    ELSE FindFrom(trace, target_line, target_var, i - 1)

RECURSIVE FindFirstFrom(_, _, _, _)
FindFirstFrom(trace, target_line, target_var, i) ==
    IF i >= Len(trace)
    THEN NoneIdx
    ELSE IF IsTargetEvent(trace[i + 1], target_line, target_var)
    THEN i
    ELSE FindFirstFrom(trace, target_line, target_var, i + 1)

FindFirstTargetEvent(trace, target_line, target_var) ==
    FindFirstFrom(trace, target_line, target_var, 0)

\* DynamicSlicer._find_target_event
FindTargetEvent(trace, target_line, target_var) ==
    FindFrom(trace, target_line, target_var, Len(trace) - 1)

\* access.split(':', 1)[1] of the tags that start with the given prefix
TaggedNames(event, op) ==
    {t[2] : t \in {u \in Range(event.memory_access) : u[1] = op}}

\* DynamicSlicer._get_affected_variables
GetAffectedVariables(event) == TaggedNames(event, "write")

\* var_name.startswith('__')
StartsWithDunder(var_name) == var_name \in {"__t"}

\* DynamicSlicer._extract_used_variables
ExtractUsedVariables(event, target_var) ==
    {var_name \in DOMAIN event.local_vars :
        /\ var_name # target_var
        /\ ~StartsWithDunder(var_name)
        /\ AccessTag("read", var_name) \in Range(event.memory_access)}

\* DynamicSlicer._is_control_statement
\* (a variant that takes every event for a control statement)
IsControlStatementAnyEvent(event) == event.event_type \in {"call", "line", "return", "exception"}

IsControlStatement(event) == event.event_type = "line"

\* DynamicSlicer._extract_control_variables
ExtractControlVariables(event) == TaggedNames(event, "read")

\* The slicer's four working sets as a value.
SlState ==
    [relevant_lines        |-> relevant_lines,
     variables_of_interest |-> variables_of_interest,
     data_deps             |-> data_deps,
     control_deps          |-> control_deps]

SetSl(st) ==
    /\ relevant_lines' = st.relevant_lines
    /\ variables_of_interest' = st.variables_of_interest
    /\ data_deps' = st.data_deps
    /\ control_deps' = st.control_deps

\* lines 115-128 for one written variable
\* (a variant without line 128: the used variables are recorded as data
\* dependencies but do not become variables of interest)
DataStepNoPropagation(st, event, var) ==
    IF var \in st.variables_of_interest
    THEN LET line      == event.line_number
             used_vars == ExtractUsedVariables(event, var)
         IN  [st EXCEPT
                !.relevant_lines = @ \cup {line},
                !.data_deps = MapPut(@, line, MapGet(@, line, {}) \cup used_vars)]
    ELSE st

DataStep(st, event, var) ==
    IF var \in st.variables_of_interest
    THEN LET line      == event.line_number
             used_vars == ExtractUsedVariables(event, var)
         IN  [st EXCEPT
                !.relevant_lines = @ \cup {line},
                !.data_deps = MapPut(@, line, MapGet(@, line, {}) \cup used_vars),
                !.variables_of_interest = @ \cup used_vars]
    ELSE st

RECURSIVE DataLoop(_, _, _, _)
\* the loop of line 114 over the written variables, taken in sequence
DataLoop(st, event, affected, k) ==
    IF k > Len(affected)
    THEN st
    ELSE DataLoop(DataStep(st, event, affected[k]), event, affected, k + 1)

\* lines 131-143
ControlStep(st, event) ==
    IF /\ IsControlStatement(event)
       /\ ExtractControlVariables(event) \cap st.variables_of_interest # {}
    THEN LET line     == event.line_number
             relevant == st.relevant_lines \cup {line}
             later    == {l \in relevant : l > line}
         IN  [st EXCEPT
                !.relevant_lines = relevant,
                !.control_deps =
                    [l \in (DOMAIN @) \cup later |->
                        IF l \in later THEN MapGet(@, l, {}) \cup {line} ELSE @[l]]]
    ELSE st

\* One iteration of the loop of _backward_traverse (lines 107-143).
TraverseEvent(st, event) ==
    ControlStep(DataLoop(st, event, NamesIn(GetAffectedVariables(event)), 1), event)

SlicerInit ==
    /\ relevant_lines = {}
    /\ variables_of_interest = {}
    /\ data_deps = EmptyMap
    /\ control_deps = EmptyMap
    /\ spc = "idle"
    /\ query = NoQuery
    /\ target_event_idx = NoneIdx
    /\ walk_i = NoneIdx
    /\ slice_result = NoSliceResult

\* (a variant that returns the working sets without resetting them first)
ComputeStartNoReset(execution_trace, target_line, target_var) ==
    LET idx == FindTargetEvent(execution_trace, target_line, target_var)
    IN  /\ spc = "idle"
        /\ query' = [execution_trace |-> execution_trace,
                     target_line     |-> target_line,
                     target_var      |-> target_var]
        /\ variables_of_interest' = {target_var}
        /\ target_event_idx' = idx
        /\ UNCHANGED <<relevant_lines, data_deps, control_deps>>
        /\ IF idx = NoneIdx
           THEN /\ slice_result' = SliceResult(target_line, target_var,
                                       relevant_lines, data_deps, control_deps)
                /\ spc' = "idle"
                /\ walk_i' = NoneIdx
           ELSE /\ spc' = "walk"
                /\ walk_i' = idx
                /\ UNCHANGED slice_result

\* (a variant whose walk starts at the last event of the trace)
ComputeStartWalksFromEnd(execution_trace, target_line, target_var) ==
    LET idx == FindTargetEvent(execution_trace, target_line, target_var)
    IN  /\ spc = "idle"
        /\ query' = [execution_trace |-> execution_trace,
                     target_line     |-> target_line,
                     target_var      |-> target_var]
        /\ relevant_lines' = {}
        /\ variables_of_interest' = {target_var}
        /\ data_deps' = EmptyMap
        /\ control_deps' = EmptyMap
        /\ target_event_idx' = idx
        /\ IF idx = NoneIdx
           THEN /\ slice_result' =
                       SliceResult(target_line, target_var, {}, EmptyMap, EmptyMap)
                /\ spc' = "idle"
                /\ walk_i' = NoneIdx
           ELSE /\ spc' = "walk"
                /\ walk_i' = Len(execution_trace) - 1
                /\ UNCHANGED slice_result

\* compute_dynamic_slice(execution_trace, target_line, target_var), lines
\* 59-79: reset, find the target event, return the empty result when there
\* is none, else enter _backward_traverse.
ComputeStart(execution_trace, target_line, target_var) ==
    LET idx == FindTargetEvent(execution_trace, target_line, target_var)
    IN  /\ spc = "idle"
        /\ query' = [execution_trace |-> execution_trace,
                     target_line     |-> target_line,
                     target_var      |-> target_var]
        /\ relevant_lines' = {}
        /\ variables_of_interest' = {target_var}
        /\ data_deps' = EmptyMap
        /\ control_deps' = EmptyMap
        /\ target_event_idx' = idx
        /\ IF idx = NoneIdx
           THEN /\ slice_result' =
                       SliceResult(target_line, target_var, {}, EmptyMap, EmptyMap)
                /\ spc' = "idle"
                /\ walk_i' = NoneIdx
           ELSE /\ spc' = "walk"
                /\ walk_i' = idx
                /\ UNCHANGED slice_result

\* One iteration of _backward_traverse; after the iteration for index 0 the
\* loop ends and compute_dynamic_slice returns the SliceResult (lines 81-87).
\* (a variant whose loop starts over from the target event whenever an
\* iteration changed the working sets)
TraverseStepRestarts ==
    LET st == TraverseEvent(SlState, query.execution_trace[walk_i + 1])
    IN  /\ spc = "walk"
        /\ walk_i >= 0
        /\ SetSl(st)
        /\ walk_i' = IF st # SlState THEN target_event_idx ELSE walk_i - 1
        /\ IF walk_i = 0 /\ st = SlState
           THEN /\ spc' = "idle"
                /\ slice_result' = SliceResult(query.target_line, query.target_var,
                                       st.relevant_lines, st.data_deps, st.control_deps)
           ELSE UNCHANGED <<spc, slice_result>>
        /\ UNCHANGED <<query, target_event_idx>>

TraverseStep ==
    LET st == TraverseEvent(SlState, query.execution_trace[walk_i + 1])
    IN  /\ spc = "walk"
        /\ walk_i >= 0
        /\ SetSl(st)
        /\ walk_i' = walk_i - 1
        /\ IF walk_i = 0
           THEN /\ spc' = "idle"
                /\ slice_result' = SliceResult(query.target_line, query.target_var,
                                       st.relevant_lines, st.data_deps, st.control_deps)
           ELSE UNCHANGED <<spc, slice_result>>
        /\ UNCHANGED <<query, target_event_idx>>

(***************************************************************************)
(* FaultLocalizer                                                          *)
(***************************************************************************)
\* Python values a test case holds: None, an int, a str.
NoneValue == [kind |-> "None", val |-> 0, text |-> ""]

IntValue(v) == [kind |-> "int", val |-> v, text |-> ""]

StrValue(t) == [kind |-> "str", val |-> 0, text |-> t]

\* f"Exception: {e}"
ExceptionText(e) == StrValue("Exception: " \o e)

\* TestCase(name, input_args, expected_output) with the dataclass defaults
TestCase(name, input_args, expected_output) ==
    [name            |-> name,
     input_args      |-> input_args,
     expected_output |-> expected_output,
     actual_output   |-> NoneValue,
     passed          |-> FALSE,
     covered_lines   |-> {}]

SuspiciousnessScore(line_number, tarantula_score, ochiai_score, failed_count, passed_count) ==
    [line_number     |-> line_number,
     tarantula_score |-> tarantula_score,
     ochiai_score    |-> ochiai_score,
     failed_count    |-> failed_count,
     passed_count    |-> passed_count]

\* ---- arithmetic of the scores.  A quotient of two counts is kept as the
\* exact ratio num / den in lowest terms (den > 0), so equal values are equal
\* records.
RECURSIVE Gcd(_, _)
Gcd(a, b) == IF b = 0 THEN a ELSE Gcd(b, a % b)

Ratio(n, d) ==
    LET g == Gcd(n, d)
    IN  IF n = 0 THEN [num |-> 0, den |-> 1] ELSE [num |-> n \div g, den |-> d \div g]

RatioZero == Ratio(0, 1)

RatioAdd(p, q) == Ratio(p.num * q.den + q.num * p.den, p.den * q.den)

\* p / q for q # 0
RatioDiv(p, q) == Ratio(p.num * q.den, p.den * q.num)

RatioLess(p, q) == p.num * q.den < q.num * p.den

\* num / math.sqrt(radicand), kept as the pair (num, radicand); radicand > 0
OverRoot(num, radicand) == [num |-> num, radicand |-> radicand]

OverRootZero == OverRoot(0, 1)

\* FaultLocalizer._compute_tarantula
\* (a variant that returns the failing ratio alone)
ComputeTarantulaFailedRatio(failed_covering, total_failed, passed_covering, total_passed) ==
    IF total_failed = 0
    THEN RatioZero
    ELSE Ratio(failed_covering, total_failed)

\* (a variant whose passing ratio is 1 when no test case passes)
ComputeTarantulaPassedRatioOne(failed_covering, total_failed, passed_covering, total_passed) ==
    IF total_failed = 0
    THEN RatioZero
    ELSE LET failed_ratio == Ratio(failed_covering, total_failed)
             passed_ratio == IF total_passed > 0
                             THEN Ratio(passed_covering, total_passed)
                             ELSE Ratio(1, 1)
         IN  RatioDiv(failed_ratio, RatioAdd(passed_ratio, failed_ratio))

\* (a variant that returns the passing ratio over the denominator)
ComputeTarantulaOfPassed(failed_covering, total_failed, passed_covering, total_passed) ==
    IF total_failed = 0
    THEN RatioZero
    ELSE LET failed_ratio == Ratio(failed_covering, total_failed)
             passed_ratio == IF total_passed > 0
                             THEN Ratio(passed_covering, total_passed)
                             ELSE RatioZero
             denominator  == RatioAdd(passed_ratio, failed_ratio)
         IN  IF denominator = RatioZero
             THEN RatioZero
             ELSE RatioDiv(passed_ratio, denominator)

ComputeTarantula(failed_covering, total_failed, passed_covering, total_passed) ==
    IF total_failed = 0
    THEN RatioZero
    ELSE LET failed_ratio == IF total_failed > 0
                             THEN Ratio(failed_covering, total_failed)
                             ELSE RatioZero
             passed_ratio == IF total_passed > 0
                             THEN Ratio(passed_covering, total_passed)
                             ELSE RatioZero
             denominator  == RatioAdd(passed_ratio, failed_ratio)
         IN  IF denominator = RatioZero
             THEN RatioZero
             ELSE RatioDiv(failed_ratio, denominator)

\* FaultLocalizer._compute_ochiai
\* (a variant that divides by the product itself, not by its square root)
ComputeOchiaiNoRoot(failed_covering, total_failed, passed_covering, total_passed) ==
    IF total_failed = 0 \/ failed_covering = 0
    THEN OverRootZero
    ELSE LET product == total_failed * (failed_covering + passed_covering)
         IN  OverRoot(failed_covering, product * product)

ComputeOchiai(failed_covering, total_failed, passed_covering, total_passed) ==
    IF total_failed = 0 \/ failed_covering = 0
    THEN OverRootZero
    ELSE LET total_covering == failed_covering + passed_covering
         IN  IF total_covering = 0
             THEN OverRootZero
             ELSE IF total_failed * total_covering = 0
             THEN OverRootZero
             ELSE OverRoot(failed_covering, total_failed * total_covering)

\* sum(1 for tc in test_cases if <tc.passed is wanted> [and line in tc.covered_lines])
TotalOf(tcs, wanted) ==
    Cardinality({i \in 1..Len(tcs) : tcs[i].passed = wanted})

\* (a variant that counts the covering test cases whatever their verdict)
CoveringOfAnyVerdict(tcs, wanted, line) ==
    Cardinality({i \in 1..Len(tcs) : line \in tcs[i].covered_lines})

CoveringOf(tcs, wanted, line) ==
    Cardinality({i \in 1..Len(tcs) :
                    tcs[i].passed = wanted /\ line \in tcs[i].covered_lines})

\* sorted(S) for a set of line numbers
RECURSIVE Sorted(_)
Sorted(S) ==
    IF S = {}
    THEN <<>>
    ELSE LET least == CHOOSE x \in S : \A y \in S : x <= y
         IN  <<least>> \o Sorted(S \ {least})

\* list.sort(key = tarantula_score, reverse = True): a stable sort, so entries
\* of equal score keep the order they had.  InsertByScore puts x behind every
\* entry of the sorted list whose score is not smaller.
InsertByScoreBeforeTies(sorted, x) ==
    LET k == Cardinality({i \in 1..Len(sorted) :
                 RatioLess(x.tarantula_score, sorted[i].tarantula_score)})
    IN  SubSeq(sorted, 1, k) \o <<x>> \o SubSeq(sorted, k + 1, Len(sorted))

InsertByScore(sorted, x) ==
    LET k == Cardinality({i \in 1..Len(sorted) :
                 ~RatioLess(sorted[i].tarantula_score, x.tarantula_score)})
    IN  SubSeq(sorted, 1, k) \o <<x>> \o SubSeq(sorted, k + 1, Len(sorted))

RECURSIVE SortByTarantula(_, _)
SortByTarantula(scores, n) ==
    IF n = 0 THEN <<>> ELSE InsertByScore(SortByTarantula(scores, n - 1), scores[n])

\* the SuspiciousnessScore of one line (body of the loop of lines 140-169)
ScoreOfLine(tcs, line) ==
    LET total_failed    == TotalOf(tcs, FALSE)
        total_passed    == TotalOf(tcs, TRUE)
        failed_covering == CoveringOf(tcs, FALSE, line)
        passed_covering == CoveringOf(tcs, TRUE, line)
    IN  SuspiciousnessScore(line,
            ComputeTarantula(failed_covering, total_failed, passed_covering, total_passed),
            ComputeOchiai(failed_covering, total_failed, passed_covering, total_passed),
            failed_covering, passed_covering)

\* FaultLocalizer.compute_suspiciousness
ComputeSuspiciousness(tcs, lines) ==
    IF TotalOf(tcs, FALSE) = 0
    THEN <<>>
    ELSE LET order  == Sorted(lines)
             scores == [k \in 1..Len(order) |-> ScoreOfLine(tcs, order[k])]
         IN  SortByTarantula(scores, Len(scores))

\* FaultLocalizer.get_most_suspicious_line
\* (a variant that returns the line of the last entry)
GetLeastSuspiciousLine(tcs, lines) ==
    LET scores == ComputeSuspiciousness(tcs, lines)
    IN  IF scores # <<>> THEN IntValue(scores[Len(scores)].line_number) ELSE NoneValue

GetMostSuspiciousLine(tcs, lines) ==
    LET scores == ComputeSuspiciousness(tcs, lines)
    IN  IF scores # <<>> THEN IntValue(scores[1].line_number) ELSE NoneValue

\* the loop body without its except clause
RunOneTestNoExcept(test_case, oc, log) ==
    IF oc.kind = "value"
    THEN LET covered       == Range(GetExecutedLines(log))
             actual_output == IntValue(oc.val)
         IN  [test_case  |-> [test_case EXCEPT
                                 !.covered_lines = covered,
                                 !.actual_output = actual_output,
                                 !.passed = (actual_output = test_case.expected_output)],
              added      |-> covered,
              propagated |-> FALSE]
    ELSE [test_case  |-> test_case,
          added      |-> {},
          propagated |-> TRUE]

\* the loop body with passed set whenever the callable returned
RunOneTestPassesOnReturn(test_case, oc, log) ==
    IF oc.kind = "value"
    THEN LET covered       == Range(GetExecutedLines(log))
             actual_output == IntValue(oc.val)
         IN  [test_case  |-> [test_case EXCEPT
                                 !.covered_lines = covered,
                                 !.actual_output = actual_output,
                                 !.passed = TRUE],
              added      |-> covered,
              propagated |-> FALSE]
    ELSE [test_case  |-> [test_case EXCEPT
                             !.actual_output = ExceptionText(oc.err),
                             !.passed = FALSE],
          added      |-> {},
          propagated |-> FALSE]

\* The body of the loop of run_tests for one test case, once trace_execution
\* has left with outcome oc and the tracer holds log: the test case as it is
\* stored, the lines added to all_lines, and whether an exception leaves
\* run_tests.
RunOneTest(test_case, oc, log) ==
    IF oc.kind = "value"
    THEN LET covered       == Range(GetExecutedLines(log))
             actual_output == IntValue(oc.val)
         IN  [test_case  |-> [test_case EXCEPT
                                 !.covered_lines = covered,
                                 !.actual_output = actual_output,
                                 !.passed = (actual_output = test_case.expected_output)],
              added      |-> covered,
              propagated |-> FALSE]
    ELSE [test_case  |-> [test_case EXCEPT
                             !.actual_output = ExceptionText(oc.err),
                             !.passed = FALSE],
          added      |-> {},
          propagated |-> FALSE]

NoSession == [ran |-> FALSE, raised |-> FALSE, lines |-> {}]

NoResult == [op |-> "none", scores |-> <<>>, line |-> NoneValue]

LocalizerInit ==
    /\ test_cases = <<>>
    /\ all_lines = {}
    /\ spectra_matrix = EmptyMap
    /\ fl_pc = "idle"
    /\ test_i = 0
    /\ run_outcome = "none"
    /\ sessions = <<>>
    /\ fl_result = NoResult

\* localizer.add_test_case(name, input_args, expected_output)
AddTestCase(name, input_args, expected_output) ==
    /\ fl_pc = "idle"
    /\ test_cases' = Append(test_cases, TestCase(name, input_args, expected_output))
    /\ sessions' = Append(sessions, NoSession)
    /\ fl_result' = NoResult
    /\ UNCHANGED <<all_lines, spectra_matrix, fl_pc, test_i, run_outcome>>

\* localizer.run_tests(target_function) is called (use_tracer left at its
\* default): the loop over test_cases is entered, or left at once when there
\* is no test case.
RunTests ==
    /\ fl_pc = "idle"
    /\ pc = "idle"
    /\ IF test_cases = <<>>
       THEN /\ fl_pc' = "idle"
            /\ test_i' = 0
            /\ run_outcome' = "returned"
       ELSE /\ fl_pc' = "invoke"
            /\ test_i' = 1
            /\ run_outcome' = "none"
    /\ fl_result' = NoResult
    /\ UNCHANGED <<test_cases, all_lines, spectra_matrix, sessions>>

\* tracer = Tracer(); tracer.trace_execution(target_function, *input_args)
\* for the test case the loop is at
InvokeTest ==
    /\ fl_pc = "invoke"
    /\ StartTrace(test_cases[test_i].input_args)
    /\ fl_pc' = "tracing"
    /\ UNCHANGED <<test_cases, all_lines, spectra_matrix, test_i, run_outcome,
                   sessions, fl_result>>

\* The Tracer of a loop iteration is a local of run_tests: once the iteration
\* has read it, nothing refers to it any more.  The hook slot is global.
DropTracer ==
    /\ is_tracing' = FALSE
    /\ trace_log' = <<>>
    /\ previous_locals' = EmptyMap
    /\ pc' = "idle"
    /\ pending' = NoOutcome
    /\ outcome' = NoOutcome
    /\ call_args' = <<>>
    /\ UNCHANGED settrace

\* trace_execution has left: the rest of the loop body, then the next test
\* case or the end of run_tests
RecordTest ==
    LET r == RunOneTest(test_cases[test_i], outcome, trace_log)
    IN  /\ fl_pc = "tracing"
        /\ pc = "idle"
        /\ sessions' = [sessions EXCEPT ![test_i] =
                           [ran    |-> TRUE,
                            raised |-> outcome.kind = "error",
                            lines  |-> Range(GetExecutedLines(trace_log))]]
        /\ IF r.propagated
           THEN /\ fl_pc' = "idle"
                /\ run_outcome' = "raised"
                /\ UNCHANGED <<test_cases, all_lines, spectra_matrix, test_i>>
           ELSE /\ test_cases' = [test_cases EXCEPT ![test_i] = r.test_case]
                /\ all_lines' = all_lines \cup r.added
                /\ spectra_matrix' = MapPut(spectra_matrix, r.test_case.name,
                                            r.test_case.covered_lines)
                /\ IF test_i < Len(test_cases)
                   THEN /\ fl_pc' = "invoke"
                        /\ test_i' = test_i + 1
                        /\ run_outcome' = "none"
                   ELSE /\ fl_pc' = "idle"
                        /\ test_i' = test_i
                        /\ run_outcome' = "returned"
        /\ DropTracer
        /\ UNCHANGED fl_result

\* a client calls localizer.compute_suspiciousness()
Compute ==
    /\ fl_pc = "idle"
    /\ fl_result' = [op     |-> "compute",
                     scores |-> ComputeSuspiciousness(test_cases, all_lines),
                     line   |-> NoneValue]
    /\ UNCHANGED <<test_cases, all_lines, spectra_matrix, fl_pc, test_i, run_outcome,
                   sessions>>

\* a client calls localizer.get_most_suspicious_line()
MostSuspicious ==
    /\ fl_pc = "idle"
    /\ fl_result' = [op     |-> "most",
                     scores |-> ComputeSuspiciousness(test_cases, all_lines),
                     line   |-> GetMostSuspiciousLine(test_cases, all_lines)]
    /\ UNCHANGED <<test_cases, all_lines, spectra_matrix, fl_pc, test_i, run_outcome,
                   sessions>>

\* ---- the two formulas called on their own
Counts(failed_covering, total_failed, passed_covering, total_passed) ==
    [failed_covering |-> failed_covering,
     total_failed    |-> total_failed,
     passed_covering |-> passed_covering,
     total_passed    |-> total_passed]

NoCounts == Counts(0, 0, 0, 0)

NoScore == [op |-> "none", tarantula |-> RatioZero, ochiai |-> OverRootZero]

\* localizer._compute_tarantula(failed_covering, total_failed, passed_covering,
\* total_passed)
CallTarantula ==
    /\ score' = [op        |-> "tarantula",
                 tarantula |-> ComputeTarantula(counts.failed_covering,
                                   counts.total_failed, counts.passed_covering,
                                   counts.total_passed),
                 ochiai    |-> OverRootZero]
    /\ UNCHANGED counts

\* localizer._compute_ochiai(failed_covering, total_failed, passed_covering,
\* total_passed)
CallOchiai ==
    /\ score' = [op        |-> "ochiai",
                 tarantula |-> RatioZero,
                 ochiai    |-> ComputeOchiai(counts.failed_covering,
                                   counts.total_failed, counts.passed_covering,
                                   counts.total_passed)]
    /\ UNCHANGED counts

(***************************************************************************)
(* Calls of Tracer.trace_function as a caller sees them                    *)
(***************************************************************************)
NoHookCall == [tick |-> FALSE, filename |-> "", tracing |-> FALSE]

HookInit == last_hook = NoHookCall

\* a call of trace_function is entered with the given frame
NoteHook(frame) ==
    last_hook' = [tick     |-> ~last_hook.tick,
                  filename |-> frame.filename,
                  tracing  |-> is_tracing]

\* tracer.trace_function(frame, event, None) called outside of a session,
\* when the slot holds no hook
CallTraceFunction(frame, event) ==
    LET self == TraceFunctionOf(TracerObject(is_tracing, trace_log, previous_locals),
                                frame, event)
    IN  /\ pc = "idle"
        /\ trace_log' = self.trace_log
        /\ previous_locals' = self.previous_locals
        /\ UNCHANGED <<settrace, is_tracing, pc, pending, outcome, call_args>>

(***************************************************************************)
(* A caller of the DynamicSlicer that keeps a SliceResult                  *)
(***************************************************************************)
HeldInit ==
    /\ held = NoSliceResult
    /\ held_shared = FALSE

\* result = slicer.compute_dynamic_slice(...): the caller keeps the value
\* returned.  The result of a found query is built from the slicer's own
\* attributes (lines 84-86), the result of a query not found from new
\* objects (lines 73-75).
KeepResult ==
    /\ spc = "idle"
    /\ query # NoQuery
    /\ held' = slice_result
    /\ held_shared' = (target_event_idx # NoneIdx)

\* What the reset of lines 60-63 does to the objects of the result kept.
\* (a variant that empties the objects in place, as set.clear() and
\* dict.clear() do)
ClearWorkingSets ==
    /\ held' = IF held_shared
               THEN [held EXCEPT !.relevant_lines = {},
                                 !.data_dependencies = EmptyMap,
                                 !.control_dependencies = EmptyMap]
               ELSE held
    /\ UNCHANGED held_shared

\* the attributes are bound to new objects; the old ones stay as they are
RebindWorkingSets ==
    /\ held' = held
    /\ held_shared' = FALSE

\* What an iteration of _backward_traverse does to the result kept: the
\* objects it changes are the ones the attributes are bound to.
WalkOnWorkingSets ==
    /\ held' = IF held_shared
               THEN [held EXCEPT !.relevant_lines = relevant_lines',
                                 !.data_dependencies = data_deps',
                                 !.control_dependencies = control_deps']
               ELSE held
    /\ UNCHANGED held_shared

(***************************************************************************)
(* BankAccount and the runs of heisenbug_demo.py                           *)
(***************************************************************************)
InitialBalance == 1000

DefaultAmount == 100

\* threading.Thread objects created by a run, not started yet
NewThread(amount) == [pc |-> "new", amount |-> amount, current_balance |-> 0]

\* the entry transfer appends: thread name, balance read, balance written,
\* amount
LogEntry(t, current_balance, new_balance, amount) ==
    [thread_name     |-> t,
     current_balance |-> current_balance,
     new_balance     |-> new_balance,
     amount          |-> amount]

AccountInit ==
    /\ balance = InitialBalance
    /\ transaction_log = <<>>
    /\ lock = {}
    /\ threads = <<>>
    /\ use_lock = FALSE
    /\ run_pc = "idle"

\* run_normal_execution / run_perturbed_execution (with_lock FALSE) and
\* run_safe_execution (with_lock TRUE) up to the loop that starts the
\* threads: BankAccount.__init__ and the threads' creation.
RunExecution(num_threads, amount, with_lock) ==
    /\ run_pc \in {"idle", "done"}
    /\ balance' = InitialBalance
    /\ transaction_log' = <<>>
    /\ lock' = {}
    /\ threads' = [t \in 1..num_threads |-> NewThread(amount)]
    /\ use_lock' = with_lock
    /\ run_pc' = "starting"

\* thread.start() for the next thread of the list
StartThread ==
    LET new == {t \in DOMAIN threads : threads[t].pc = "new"}
    IN  /\ run_pc = "starting"
        /\ new # {}
        /\ LET t == CHOOSE u \in new : \A v \in new : u <= v
           IN  threads' = [threads EXCEPT ![t].pc = "transfer"]
        /\ run_pc' = IF Cardinality(new) = 1 THEN "joining" ELSE "starting"
        /\ UNCHANGED <<balance, transaction_log, lock, use_lock>>

\* BankAccount.transfer, lines 36-40, up to the call of _unsafe_transfer
\* (a variant that never takes the lock)
TransferWithoutLock(t) ==
    /\ threads[t].pc = "transfer"
    /\ threads' = [threads EXCEPT ![t].pc = "read"]
    /\ UNCHANGED <<balance, transaction_log, lock, use_lock, run_pc>>

\* with use_lock the thread waits for the lock and takes it
Transfer(t) ==
    /\ threads[t].pc = "transfer"
    /\ IF use_lock
       THEN /\ lock = {}
            /\ lock' = {t}
       ELSE UNCHANGED lock
    /\ threads' = [threads EXCEPT ![t].pc = "read"]
    /\ UNCHANGED <<balance, transaction_log, use_lock, run_pc>>

\* line 45 (line 174 in perturbed_transfer): current_balance = self.balance
ReadBalance(t) ==
    /\ threads[t].pc = "read"
    /\ threads' = [threads EXCEPT ![t].pc = "write",
                                  ![t].current_balance = balance]
    /\ UNCHANGED <<balance, transaction_log, lock, use_lock, run_pc>>

\* lines 52-53 (180-181), after the sleep
\* (a variant that subtracts from the balance the account holds now)
WriteBalanceInPlace(t) ==
    /\ threads[t].pc = "write"
    /\ balance' = balance - threads[t].amount
    /\ threads' = [threads EXCEPT ![t].pc = "log"]
    /\ UNCHANGED <<transaction_log, lock, use_lock, run_pc>>

\* new_balance = current_balance - amount; self.balance = new_balance
WriteBalance(t) ==
    /\ threads[t].pc = "write"
    /\ balance' = threads[t].current_balance - threads[t].amount
    /\ threads' = [threads EXCEPT ![t].pc = "log"]
    /\ UNCHANGED <<transaction_log, lock, use_lock, run_pc>>

\* lines 56-59 (184-187); _unsafe_transfer returns
\* (a variant that logs only withdrawals from a balance not logged before)
LogTransactionOncePerBalance(t) ==
    LET th == threads[t]
        seen == \E k \in 1..Len(transaction_log) :
                    transaction_log[k].current_balance = th.current_balance
    IN  /\ th.pc = "log"
        /\ transaction_log' =
               IF seen
               THEN transaction_log
               ELSE Append(transaction_log,
                           LogEntry(t, th.current_balance,
                                    th.current_balance - th.amount, th.amount))
        /\ threads' = [threads EXCEPT ![t].pc = IF use_lock THEN "unlock" ELSE "done",
                                      ![t].current_balance = 0]
        /\ UNCHANGED <<balance, lock, use_lock, run_pc>>

LogTransaction(t) ==
    LET th == threads[t]
    IN  /\ th.pc = "log"
        /\ transaction_log' =
               Append(transaction_log,
                      LogEntry(t, th.current_balance,
                               th.current_balance - th.amount, th.amount))
        /\ threads' = [threads EXCEPT ![t].pc = IF use_lock THEN "unlock" ELSE "done",
                                      ![t].current_balance = 0]
        /\ UNCHANGED <<balance, lock, use_lock, run_pc>>

\* the end of the with block of line 37: the lock is released
ReleaseLock(t) ==
    /\ threads[t].pc = "unlock"
    /\ lock' = lock \ {t}
    /\ threads' = [threads EXCEPT ![t].pc = "done"]
    /\ UNCHANGED <<balance, transaction_log, use_lock, run_pc>>

\* the loop of thread.join() has ended; the run returns the account
JoinThreads ==
    /\ run_pc = "joining"
    /\ \A t \in DOMAIN threads : threads[t].pc = "done"
    /\ run_pc' = "done"
    /\ UNCHANGED <<balance, transaction_log, lock, threads, use_lock>>

(***************************************************************************)
(* Inputs and bounds                                                       *)
(***************************************************************************)
Events == {"call", "line", "return", "exception"}

\* all dicts over a subset of the given names
LocalsOver(names, values) ==
    UNION {[S -> values] : S \in SUBSET names}

Frames(filenames, lines, functions, locals) ==
    [filename : filenames, f_lineno : lines, co_name : functions, f_locals : locals]

Results == {0, 1}

Errors == {"ValueError"}

Init ==
    /\ TracerInit
    /\ IndexerInit
    /\ SlicerInit
    /\ LocalizerInit
    /\ counts = NoCounts
    /\ score = NoScore
    /\ ClientInit
    /\ HookInit
    /\ HeldInit
    /\ AccountInit

(***************************************************************************)
(* Specification of the Tracer alone: sessions of trace_execution over a   *)
(* callable that makes the interpreter call the hook and then returns or   *)
(* raises.                                                                 *)
(***************************************************************************)
MaxTraceEvents == 2

TracerFrames ==
    Frames({UserFile, TracerFile, SyntheticFile}, {1, 2}, {"f"},
           LocalsOver({"a"}, {0, 1}))

\* the interpreter calls the hook for an event of the running callable
HookWhileRunning(frame, event) ==
    /\ pc = "running"
    /\ TraceFunction(frame, event)

\* the interpreter calls the hook for the line event of stop_trace's second
\* statement, a frame of tracer_engine.py, after is_tracing was cleared
HookWhileStopping(frame) ==
    /\ pc = "stopping"
    /\ frame.filename = TracerFile
    /\ TraceFunction(frame, "line")

\* the indexer, the slicer and the fault localizer take no part
TracerOnly ==
    UNCHANGED <<indexerVars, slicerVars, localizerVars, scoreVars, clientVars,
                hookVars, resultVars, accountVars>>

TracerNext ==
    \/ StartTrace(<<>>) /\ TracerOnly
    \/ \E frame \in TracerFrames, event \in Events :
          /\ Len(trace_log) < MaxTraceEvents
          /\ HookWhileRunning(frame, event)
          /\ TracerOnly
    \/ \E frame \in TracerFrames : HookWhileStopping(frame) /\ TracerOnly
    \/ \E r \in Results : FuncReturn(r) /\ TracerOnly
    \/ \E e \in Errors : FuncRaise(e) /\ TracerOnly
    \/ FinishTrace /\ TracerOnly

SpecTracer == Init /\ [][TracerNext]_vars

(***************************************************************************)
(* Specification of the ExecutionIndexer alone, driven through its API.    *)
(***************************************************************************)
MaxDepth == 2

MaxPoints == 4

FunctionNames == {"f"}

Statements == {1, 2}

\* the tracer, the slicer and the fault localizer take no part
IndexerOnly ==
    UNCHANGED <<tracerVars, slicerVars, localizerVars, scoreVars, clientVars,
                hookVars, resultVars, accountVars>>

IndexerNext ==
    \/ \E name \in FunctionNames :
          /\ Len(context_stack) < MaxDepth
          /\ Push(name)
          /\ IndexerOnly
    \/ Pop /\ IndexerOnly
    \/ \E line \in Statements :
          /\ Len(execution_points) < MaxPoints
          /\ Record(line)
          /\ IndexerOnly
    \/ ResetIndexer /\ IndexerOnly

SpecIndexer == Init /\ [][IndexerNext]_vars

(***************************************************************************)
(* Properties of the Tracer (checked under SpecTracer)                     *)
(***************************************************************************)
\* C1: whenever trace_execution has been left, with a result or with the
\* callable's exception, the hook slot is empty and the tracer is not marked
\* as tracing.
C1_HookReleasedOnExit ==
    (pc = "idle" /\ outcome.kind \in {"value", "error"})
        => (settrace = NoHook /\ is_tracing = FALSE)

\* a session that recorded events was left through the exception path
C1_Witness ==
    /\ pc = "idle"
    /\ outcome.kind = "error"
    /\ Len(trace_log) > 0
    /\ settrace = NoHook

\* C2: when the callable raises, the step that takes the exception and every
\* step until trace_execution is left keep the trace as it was; the error
\* reaches the caller only in a step that leaves the hook slot empty, and it
\* is the error the callable raised.
C2_RaiseKeepsTraceThenPropagates ==
    [][/\ (pending.kind = "error" \/ pending'.kind = "error")
            => trace_log' = trace_log
       /\ (outcome'.kind = "error" /\ outcome.kind # "error")
            => /\ pending.kind = "error"
               /\ outcome' = pending
               /\ settrace' = NoHook
               /\ is_tracing' = FALSE]_vars

\* the caller holds the error, the hook is gone and two events are kept
C2_Witness ==
    /\ pc = "idle"
    /\ outcome = ErrorOutcome("ValueError")
    /\ settrace = NoHook
    /\ Len(trace_log) = 2

\* C25: outside of start_trace, which begins a new trace, a step leaves the
\* trace as it is or appends one event behind the events it holds, which
\* stay as they were recorded, locals included; once stop_trace has cleared
\* is_tracing, no step changes the trace, a call of the hook included.
C25_TraceAppendOnlyThenFrozen ==
    [][IF pc = "idle" /\ pc' = "running"
       THEN TRUE
       ELSE /\ \/ trace_log' = trace_log
               \/ /\ Len(trace_log') = Len(trace_log) + 1
                  /\ SubSeq(trace_log', 1, Len(trace_log)) = trace_log
            /\ ~is_tracing => trace_log' = trace_log]_vars

\* a session is over whose trace holds a = 0 in its first event and a = 1 in
\* its second one
C25_Witness ==
    /\ pc = "idle"
    /\ settrace = NoHook
    /\ ~is_tracing
    /\ Len(trace_log) = 2
    /\ trace_log[1].local_vars = [n \in {"a"} |-> 0]
    /\ trace_log[2].local_vars = [n \in {"a"} |-> 1]
    /\ trace_log[2].memory_access = <<AccessTag("write", "a")>>

(***************************************************************************)
(* Properties of the ExecutionIndexer (checked under SpecIndexer)          *)
(***************************************************************************)
SamePair(p, q) == p.context = q.context /\ p.statement = q.statement

\* number of points among the first i of the history with the pair of point i
Occurrences(h, i) == Cardinality({j \in 1..i : SamePair(h[j], h[i])})

\* C3: the history since the last reset lists, for every pair, instances
\* 1, 2, 3, ... in order: the n-th recorded point of a (context, statement)
\* pair has instance n, whatever was pushed, popped or recorded for other
\* pairs in between; the point returned is the one appended; right after
\* reset() context and history are empty.
C3_NthRecordHasInstanceN ==
    /\ \A i \in 1..Len(execution_points) :
          execution_points[i].instance = Occurrences(execution_points, i)
    /\ last_op.op = "record" =>
          /\ execution_points # <<>>
          /\ last_point = execution_points[Len(execution_points)]
    /\ last_op.op = "reset" =>
          /\ context_stack = <<>>
          /\ execution_points = <<>>
          /\ current_index = 0

\* a third record of one pair, with a record of another pair before it
C3_Witness ==
    /\ last_op.op = "record"
    /\ last_point.instance = 3
    /\ \E k \in 1..Len(execution_points) :
          ~SamePair(execution_points[k], last_point)

\* C4: no two execution points of the history are equal.
C4_PointsUnique ==
    \A i, j \in 1..Len(execution_points) :
        i # j => ~PointEq(execution_points[i], execution_points[j])

\* two points of the same context and statement are in the history
C4_Witness ==
    \E i, j \in 1..Len(execution_points) :
        /\ i < j
        /\ execution_points[i].context # <<>>
        /\ SamePair(execution_points[i], execution_points[j])

\* C5: push_context and pop_context leave the counters alone, and
\* record_execution returns, for the pair made of the current stack contents
\* and the statement, that pair's previous count plus one (1 for a pair not
\* counted yet): the counter of a context continues when the context is left
\* and entered again, and another context has its own counter.
C5_CountersSurviveReentry ==
    [][/\ last_op'.op \in {"push", "pop"}
            => instance_counters' = instance_counters
       /\ (last_op'.op = "record" /\ Len(execution_points') = Len(execution_points) + 1)
            => /\ last_point'.context = context_stack
               /\ last_point'.instance =
                      MapGet(instance_counters,
                             <<context_stack, last_point'.statement>>, 0) + 1]_vars

\* f was entered, left and entered again: the second record in context <<f>>
\* is instance 2, and the nested context <<f, f>> starts at 1
C5_Witness ==
    /\ Len(execution_points) = 4
    /\ execution_points[1] = ExecutionPoint(<<"f">>, 1, 1)
    /\ execution_points[2] = ExecutionPoint(<<>>, 1, 1)
    /\ execution_points[3] = ExecutionPoint(<<"f">>, 1, 2)
    /\ execution_points[4] = ExecutionPoint(<<"f", "f">>, 1, 1)

\* C6: pop_context on an empty stack raises nothing and changes neither the
\* stack nor the counters nor the history; no indexer operation raises.
C6_PopOnEmptyIsNoOp ==
    [][/\ last_op'.raised = "none"
       /\ (last_op'.op = "pop" /\ context_stack = <<>>)
            => UNCHANGED <<context_stack, instance_counters, execution_points,
                           current_index>>]_vars

\* pop_context was called on an empty stack of an indexer that holds points
C6_Witness ==
    /\ last_op.op = "pop"
    /\ last_op.on_empty
    /\ context_stack = <<>>
    /\ Len(execution_points) > 0

(***************************************************************************)
(* Specification of the IndexedTracer: traces recorded by the Tracer are   *)
(* handed to trace_with_indexing.  MaxIndexedEvents bounds the events held *)
(* by the trace being recorded and the indexed trace together.             *)
(***************************************************************************)
MaxIndexedEvents == 3

\* frames of two functions: f, whose body is line 1, and g, whose body is line 2
IndexFrames ==
    Frames({UserFile}, {1}, {"f"}, {EmptyMap}) \cup Frames({UserFile}, {2}, {"g"}, {EmptyMap})

\* the slicer and the fault localizer take no part
NoSlicer ==
    UNCHANGED <<slicerVars, localizerVars, scoreVars, clientVars,
                hookVars, resultVars, accountVars>>

IndexedNext ==
    \/ StartTrace(<<>>) /\ UNCHANGED indexerVars /\ NoSlicer
    \/ \E frame \in IndexFrames, event \in Events :
          /\ Len(trace_log) + Len(indexed_trace) < MaxIndexedEvents
          /\ HookWhileRunning(frame, event)
          /\ UNCHANGED indexerVars
          /\ NoSlicer
    \/ \E r \in Results : FuncReturn(r) /\ UNCHANGED indexerVars /\ NoSlicer
    \/ \E e \in Errors : FuncRaise(e) /\ UNCHANGED indexerVars /\ NoSlicer
    \/ FinishTrace /\ UNCHANGED indexerVars /\ NoSlicer
    \/ IndexTrace /\ UNCHANGED tracerVars /\ NoSlicer

SpecIndexed == Init /\ [][IndexedNext]_vars

\* C7: trace_with_indexing returns one pair per event of the trace, in
\* order, whose first components are the events of the trace, and leaves the
\* trace it was given as it was.
C7_IndexingRoundTrip ==
    [][(indexed_trace' # indexed_trace \/ last_op' # last_op)
          => /\ trace_log' = trace_log
             /\ Len(indexed_trace') = Len(trace_log)
             /\ \A k \in 1..Len(trace_log) : indexed_trace'[k][1] = trace_log[k]]_vars

\* a trace of a call, an exception and a return was indexed
C7_Witness ==
    /\ last_op.op = "trace_with_indexing"
    /\ Len(trace_log) = 3
    /\ Len(indexed_trace) = 3
    /\ indexed_trace[1][1].event_type = "call"
    /\ indexed_trace[2][1].event_type = "exception"
    /\ indexed_trace[3][1].event_type = "return"
    /\ \A k \in 1..3 : indexed_trace[k][1] = trace_log[k]

\* C29: in an indexed trace the point of every event has the event's line
\* as statement and, with p the context of the point before it (the empty
\* context for the first event), the context p with the event's function name
\* appended for a call event, p without its last name for a return event (p
\* itself when p is empty), and p for a line or exception event; the indexer
\* holds one point per event, in the order of the events.
C29_ContextChangesBeforeRecord ==
    /\ Len(execution_points) = Len(indexed_trace)
    /\ current_index = Len(indexed_trace)
    /\ \A k \in 1..Len(indexed_trace) :
          LET event == indexed_trace[k][1]
              point == indexed_trace[k][2]
              p     == IF k = 1 THEN <<>> ELSE indexed_trace[k - 1][2].context
          IN  /\ point = execution_points[k]
              /\ point.statement = event.line_number
              /\ point.context =
                    IF event.event_type = "call"
                    THEN p \o <<event.function_name>>
                    ELSE IF event.event_type = "return" /\ p # <<>>
                    THEN SubSeq(p, 1, Len(p) - 1)
                    ELSE p

\* f is called, f calls g, g returns: the point of the return event has the
\* context of f
C29_Witness ==
    /\ last_op.op = "trace_with_indexing"
    /\ Len(indexed_trace) = 3
    /\ indexed_trace[1][1].event_type = "call"
    /\ indexed_trace[1][2].context = <<"f">>
    /\ indexed_trace[2][1].event_type = "call"
    /\ indexed_trace[2][2].context = <<"f", "g">>
    /\ indexed_trace[3][1].event_type = "return"
    /\ indexed_trace[3][2].context = <<"f">>

(***************************************************************************)
(* Specification of the DynamicSlicer over traces recorded by the Tracer.  *)
(* MaxSliceEvents bounds the events held by the trace being recorded and   *)
(* the trace of the last query together.                                   *)
(***************************************************************************)
MaxSliceEvents == 2

SliceNames == {"a", "b"}

SliceLines == {1, 2}

SliceEvents == {"line", "return"}

\* locals of a function with variables a (value 0 or 1) and b (value 0)
SliceLocals ==
    {l \in LocalsOver(SliceNames, {0, 1}) : "b" \in DOMAIN l => l["b"] = 0}

SliceFrames == Frames({UserFile}, SliceLines, {"f"}, SliceLocals)

\* the indexer and the fault localizer take no part
NoIndexer ==
    UNCHANGED <<indexerVars, localizerVars, scoreVars, clientVars,
                hookVars, resultVars, accountVars>>

\* a client calls slicer.compute_dynamic_slice(tracer.get_trace_log(), line, var)
SliceTrace(target_line, target_var) ==
    /\ pc = "idle"
    /\ ComputeStart(trace_log, target_line, target_var)

SlicerNext ==
    \/ spc = "idle" /\ StartTrace(<<>>) /\ UNCHANGED slicerVars /\ NoIndexer
    \/ \E frame \in SliceFrames, event \in SliceEvents :
          /\ Len(trace_log) + Len(query.execution_trace) < MaxSliceEvents
          /\ HookWhileRunning(frame, event)
          /\ UNCHANGED slicerVars
          /\ NoIndexer
    \/ FuncReturn(0) /\ UNCHANGED slicerVars /\ NoIndexer
    \/ FinishTrace /\ UNCHANGED slicerVars /\ NoIndexer
    \/ \E target_line \in SliceLines, target_var \in SliceNames :
          /\ SliceTrace(target_line, target_var)
          /\ UNCHANGED tracerVars
          /\ NoIndexer
    \/ TraverseStep /\ UNCHANGED tracerVars /\ NoIndexer

SpecSlicer == Init /\ [][SlicerNext]_vars

\* the 0-based indices of the events of the query's trace that have the
\* target statement as location and the target variable in their locals
MatchingIndices(q) ==
    {i \in 0..(Len(q.execution_trace) - 1) :
        /\ q.execution_trace[i + 1].line_number = q.target_line
        /\ q.target_var \in DOMAIN q.execution_trace[i + 1].local_vars}

\* C9: the target event of a query is the matching event of highest index,
\* whatever its kind, and the backward walk is entered at that index.
C9_TargetIsLastMatch ==
    [][/\ MatchingIndices(query') # {} =>
             /\ target_event_idx' \in MatchingIndices(query')
             /\ \A j \in MatchingIndices(query') : j <= target_event_idx'
       /\ (spc = "idle" /\ spc' = "walk") => walk_i' = target_event_idx']_vars

\* two events match, the walk is at its start, on the second one, a return
C9_Witness ==
    /\ spc = "walk"
    /\ MatchingIndices(query) = {0, 1}
    /\ target_event_idx = 1
    /\ walk_i = 1
    /\ query.execution_trace[2].event_type = "return"

\* C10: a query that no event of the trace matches (the empty trace
\* included) has returned the result of that query with an empty relevant
\* set and empty dependency maps.
C10_NotFoundReturnsEmpty ==
    (query # NoQuery /\ MatchingIndices(query) = {})
        => /\ spc = "idle"
           /\ target_event_idx = NoneIdx
           /\ slice_result = SliceResult(query.target_line, query.target_var,
                                         {}, EmptyMap, EmptyMap)

\* a not-found query on a trace that holds the variable at another statement
C10_Witness ==
    /\ query # NoQuery
    /\ MatchingIndices(query) = {}
    /\ slice_result.relevant_lines = {}
    /\ \E k \in 1..Len(query.execution_trace) :
          /\ query.target_var \in DOMAIN query.execution_trace[k].local_vars
          /\ query.execution_trace[k].line_number # query.target_line

\* the names an event tags with the given operation
NamesTagged(event, op) ==
    {n \in DOMAIN event.local_vars : AccessTag(op, n) \in Range(event.memory_access)}

\* C27: when the walk visits an event that tags as written a name that is a
\* variable of interest, the event's line becomes relevant and the names the
\* event tags as read (the written name and names starting with '__' apart)
\* are in the line's data dependencies and among the variables of interest
\* afterwards; so in a result for a target variable, the line of an event at
\* or before the target event that writes the target variable is relevant,
\* and so is the line of every earlier event that writes a name the former
\* reads.
C27_WritersOfInterestPropagate ==
    /\ [][(spc = "walk" /\ walk_i' # walk_i) =>
             LET event == query.execution_trace[walk_i + 1]
                 line  == event.line_number
             IN  \A v \in NamesTagged(event, "write") \cap variables_of_interest :
                     LET reads == {n \in NamesTagged(event, "read") :
                                      n # v /\ ~StartsWithDunder(n)}
                     IN  /\ line \in relevant_lines'
                         /\ line \in DOMAIN data_deps'
                         /\ reads \subseteq data_deps'[line]
                         /\ reads \subseteq variables_of_interest']_vars
    /\ [](\A j \in 1..(target_event_idx + 1) :
              (/\ spc = "idle"
               /\ query.target_var \in NamesTagged(query.execution_trace[j], "write")) =>
                  /\ query.execution_trace[j].line_number \in slice_result.relevant_lines
                  /\ \A i \in 1..(j - 1) :
                        (NamesTagged(query.execution_trace[i], "write")
                            \cap NamesTagged(query.execution_trace[j], "read") # {}) =>
                            query.execution_trace[i].line_number
                                \in slice_result.relevant_lines)

\* the target event, at line 2, writes a and reads b, and the event before
\* it, at line 1, writes b: line 2 depends on b and line 1 is relevant
C27_Witness ==
    /\ spc = "idle"
    /\ query.target_var = "a"
    /\ query.target_line = 2
    /\ target_event_idx = 1
    /\ NamesTagged(query.execution_trace[1], "write") = {"b"}
    /\ query.execution_trace[1].line_number = 1
    /\ NamesTagged(query.execution_trace[2], "read") = {"b"}
    /\ MapGet(slice_result.data_dependencies, 2, {}) = {"b"}
    /\ 1 \in slice_result.relevant_lines

(***************************************************************************)
(* Specification of the backward walk with its scheduling: traces of a     *)
(* callable whose variables a and b hold 0 are recorded and sliced.  The   *)
(* loop of _backward_traverse is a for loop over a finite range: once      *)
(* entered, it runs on.                                                    *)
(***************************************************************************)
MaxWalkEvents == 2

WalkFrames == Frames({UserFile}, SliceLines, {"f"}, LocalsOver(SliceNames, {0}))

WalkEvents == {"line"}

WalkNext ==
    \/ spc = "idle" /\ StartTrace(<<>>) /\ UNCHANGED slicerVars /\ NoIndexer
    \/ \E frame \in WalkFrames, event \in WalkEvents :
          /\ Len(trace_log) + Len(query.execution_trace) < MaxWalkEvents
          /\ HookWhileRunning(frame, event)
          /\ UNCHANGED slicerVars
          /\ NoIndexer
    \/ FuncReturn(0) /\ UNCHANGED slicerVars /\ NoIndexer
    \/ FinishTrace /\ UNCHANGED slicerVars /\ NoIndexer
    \/ \E target_line \in SliceLines, target_var \in SliceNames :
          /\ SliceTrace(target_line, target_var)
          /\ UNCHANGED tracerVars
          /\ NoIndexer
    \/ TraverseStep /\ UNCHANGED tracerVars /\ NoIndexer

SpecWalk ==
    Init /\ [][WalkNext]_vars /\ WF_vars(TraverseStep /\ UNCHANGED tracerVars /\ NoIndexer)

\* C26: every iteration of the backward walk is at an index of the trace and
\* moves to the index below it, the walk is left exactly by the iteration at
\* index 0, and a walk that was entered is left, with the result of its query
\* returned.
C26_WalkReachesIndexZero ==
    /\ [][spc = "walk" =>
             /\ walk_i \in 0..(Len(query.execution_trace) - 1)
             /\ walk_i' = walk_i - 1
             /\ spc' = "idle" <=> walk_i = 0]_vars
    /\ [](spc = "walk" =>
             <>(/\ spc = "idle"
                /\ walk_i = NoneIdx
                /\ slice_result.target_line = query.target_line
                /\ slice_result.target_var = query.target_var))

\* a walk entered at the second event is over; the variables of interest grew
\* from the target variable to two names on the way, and both events' lines
\* are relevant
C26_Witness ==
    /\ spc = "idle"
    /\ target_event_idx = 1
    /\ walk_i = NoneIdx
    /\ Cardinality(variables_of_interest) = 2
    /\ slice_result.relevant_lines = {1, 2}
    /\ slice_result.target_line = query.target_line

(***************************************************************************)
(* Specification of the slicer over traces of three events, the least a    *)
(* control dependency takes: traces of a callable with a parameter b and a *)
(* local a are recorded and sliced.  MaxGateEvents bounds the events held  *)
(* by the trace being recorded and the trace of the last query together.   *)
(***************************************************************************)
MaxGateEvents == 3

\* locals of a function whose parameter b and whose local a, once bound,
\* hold 0
GateLocals == {l \in LocalsOver(SliceNames, {0}) : "b" \in DOMAIN l}

GateFrames == Frames({UserFile}, SliceLines, {"f"}, GateLocals)

GateNext ==
    \/ spc = "idle" /\ StartTrace(<<>>) /\ UNCHANGED slicerVars /\ NoIndexer
    \/ \E frame \in GateFrames, event \in SliceEvents :
          /\ Len(trace_log) + Len(query.execution_trace) < MaxGateEvents
          /\ HookWhileRunning(frame, event)
          /\ UNCHANGED slicerVars
          /\ NoIndexer
    \/ FuncReturn(0) /\ UNCHANGED slicerVars /\ NoIndexer
    \/ FinishTrace /\ UNCHANGED slicerVars /\ NoIndexer
    \/ \E target_line \in SliceLines, target_var \in SliceNames :
          /\ SliceTrace(target_line, target_var)
          /\ UNCHANGED tracerVars
          /\ NoIndexer
    \/ TraverseStep /\ UNCHANGED tracerVars /\ NoIndexer

SpecGate == Init /\ [][GateNext]_vars

\* the 1-based indices of the events the walk of the query has visited
Visited ==
    IF target_event_idx = NoneIdx
    THEN {}
    ELSE IF spc = "walk"
    THEN (walk_i + 2)..(target_event_idx + 1)
    ELSE 1..(target_event_idx + 1)

\* C28: every control-dependency edge leads from a relevant line to a
\* relevant line with a smaller number, which is the line of a visited 'line'
\* event that tags as read a variable of interest; and the iteration that
\* visits such an event adds an edge to its line from every line that is
\* relevant and greater, while an iteration on another event adds no edge.
C28_ControlEdgesPointBack ==
    /\ [](\A l \in DOMAIN control_deps : \A g \in control_deps[l] :
             /\ l \in relevant_lines
             /\ g \in relevant_lines
             /\ g < l
             /\ \E k \in Visited :
                   /\ query.execution_trace[k].event_type = "line"
                   /\ query.execution_trace[k].line_number = g
                   /\ NamesTagged(query.execution_trace[k], "read")
                          \cap variables_of_interest # {})
    /\ [](\A l \in DOMAIN slice_result.control_dependencies :
             \A g \in slice_result.control_dependencies[l] :
                 /\ l \in slice_result.relevant_lines
                 /\ g \in slice_result.relevant_lines
                 /\ g < l)
    /\ [][(spc = "walk" /\ walk_i' # walk_i) =>
             LET event == query.execution_trace[walk_i + 1]
                 line  == event.line_number
             IN  IF /\ event.event_type = "line"
                    /\ NamesTagged(event, "read") \cap variables_of_interest' # {}
                 THEN \A l \in relevant_lines :
                          l > line => /\ l \in DOMAIN control_deps'
                                      /\ line \in control_deps'[l]
                 ELSE control_deps' = control_deps]_vars

\* a result whose line 2 is gated by line 1: the target event, at line 2,
\* writes a, and the 'line' event before it, at line 1, reads b
C28_Witness ==
    /\ spc = "idle"
    /\ Len(query.execution_trace) = 3
    /\ target_event_idx = 2
    /\ query.target_var = "a"
    /\ query.execution_trace[2].event_type = "line"
    /\ query.execution_trace[2].line_number = 1
    /\ "b" \in NamesTagged(query.execution_trace[2], "read")
    /\ slice_result.relevant_lines = {1, 2}
    /\ MapGet(slice_result.control_dependencies, 2, {}) = {1}

(***************************************************************************)
(* Specification of the slicer's demonstration (dynamic_slicer.py, lines   *)
(* 264-299): test_function is run under trace_execution and the recorded   *)
(* trace is sliced.                                                        *)
(***************************************************************************)
DemoFile == "dynamic_slicer.py"

\* the line of "def test_function(x, y):"
DemoFirstLine == 268

\* the line the demonstration's comments call "Line n"
DemoLine(n) == DemoFirstLine + n - 1

\* target_line of the demonstration's own query
DemoTargetLine == 5

\* events of one run: the call, a line event before each of the five
\* statements, the return
DemoEventCount == 7

DemoInputs == {3, 4}

\* values of test_function's variables for arguments (x, y)
DemoValues(args) ==
    LET x == args[1]
        y == args[2]
        a == x + 1
        b == y * 2
        c == a + b
        d == c * 2
    IN  [x |-> x, y |-> y, a |-> a, b |-> b, c |-> c, d |-> d]

\* The k-th event the interpreter reports for a run of test_function: a line
\* event is reported before its statement runs, so the variable a statement
\* assigns is in f_locals from the next event on.
DemoEventAt(k) == IF k = 1 THEN "call" ELSE IF k = DemoEventCount THEN "return" ELSE "line"

DemoDefinedAt(k) ==
    {"x", "y"} \cup (IF k >= 3 THEN {"a"} ELSE {}) \cup (IF k >= 4 THEN {"b"} ELSE {})
               \cup (IF k >= 5 THEN {"c"} ELSE {}) \cup (IF k >= 6 THEN {"d"} ELSE {})

DemoFrameAt(k, args) ==
    [filename |-> DemoFile,
     f_lineno |-> DemoLine(IF k = DemoEventCount THEN k - 1 ELSE k),
     co_name  |-> "test_function",
     f_locals |-> [n \in DemoDefinedAt(k) |-> DemoValues(args)[n]]]

\* tracer.trace_execution(test_function, x, y)
DemoStart(args) ==
    /\ spc = "idle"
    /\ StartTrace(args)

\* test_function runs on: the interpreter reports its next event to the hook
DemoStep ==
    /\ Len(trace_log) < DemoEventCount
    /\ HookWhileRunning(DemoFrameAt(Len(trace_log) + 1, call_args),
                        DemoEventAt(Len(trace_log) + 1))

\* test_function returns d
DemoReturn ==
    /\ Len(trace_log) = DemoEventCount
    /\ FuncReturn(DemoValues(call_args).d)

\* slicer.compute_dynamic_slice(tracer.get_trace_log(), target_line, target_var)
DemoSlice(target_line, target_var) ==
    /\ outcome.kind = "value"
    /\ SliceTrace(target_line, target_var)

DemoQueryLines == {DemoLine(n) : n \in 1..6} \cup {DemoTargetLine}

DemoQueryNames == {"x", "y", "a", "b", "c", "d"}

DemoNext ==
    \/ \E x \in DemoInputs, y \in DemoInputs :
          DemoStart(<<x, y>>) /\ UNCHANGED slicerVars /\ NoIndexer
    \/ DemoStep /\ UNCHANGED slicerVars /\ NoIndexer
    \/ DemoReturn /\ UNCHANGED slicerVars /\ NoIndexer
    \/ FinishTrace /\ UNCHANGED slicerVars /\ NoIndexer
    \/ \E target_line \in DemoQueryLines, target_var \in DemoQueryNames :
          /\ DemoSlice(target_line, target_var)
          /\ UNCHANGED tracerVars
          /\ NoIndexer
    \/ TraverseStep /\ UNCHANGED tracerVars /\ NoIndexer

SpecDemo == Init /\ [][DemoNext]_vars

\* C8: slicing the recorded trace of test_function on d at the statement
\* d = c * 2 has returned a relevant set with the statements that define
\* a, b, c and d, and a data-dependency entry for d's line that contains c.
C8_StraightLineSlice ==
    (/\ spc = "idle"
     /\ Len(query.execution_trace) = DemoEventCount
     /\ query.target_var = "d"
     /\ query.target_line = DemoLine(5))
        => /\ {DemoLine(2), DemoLine(3), DemoLine(4), DemoLine(5)}
                  \subseteq slice_result.relevant_lines
           /\ "c" \in MapGet(slice_result.data_dependencies, DemoLine(5), {})

(***************************************************************************)
(* Specification of the FaultLocalizer: test cases are added, run_tests    *)
(* runs them on a callable that makes the interpreter report events and    *)
(* then returns or raises, and the scores are asked for.                   *)
(***************************************************************************)
MaxTests == 2

\* the k-th test case added is named after its position
TestNames == <<"t1", "t2", "t3", "t4">>

TestArgs == {<<0>>}

ExpectedOutputs == {IntValue(1)}

LocalizerFrames == Frames({UserFile}, {1, 2}, {"f"}, {EmptyMap})

LocalizerEvents == {"line"}

\* the callable under test is loop-free: its statements run top to bottom
RunsTopToBottom(frame) ==
    IF trace_log = <<>>
    THEN TRUE
    ELSE trace_log[Len(trace_log)].line_number < frame.f_lineno

\* the indexer and the slicer take no part
LocalizerOnly ==
    UNCHANGED <<indexerVars, slicerVars, scoreVars, clientVars,
                hookVars, resultVars, accountVars>>

LocalizerNext ==
    \/ \E input_args \in TestArgs, expected \in ExpectedOutputs :
          /\ Len(test_cases) < MaxTests
          /\ AddTestCase(TestNames[Len(test_cases) + 1], input_args, expected)
          /\ UNCHANGED tracerVars
          /\ LocalizerOnly
    \/ RunTests /\ UNCHANGED tracerVars /\ LocalizerOnly
    \/ InvokeTest /\ LocalizerOnly
    \/ \E frame \in LocalizerFrames, event \in LocalizerEvents :
          /\ fl_pc = "tracing"
          /\ RunsTopToBottom(frame)
          /\ HookWhileRunning(frame, event)
          /\ UNCHANGED localizerVars
          /\ LocalizerOnly
    \/ \E r \in Results :
          fl_pc = "tracing" /\ FuncReturn(r) /\ UNCHANGED localizerVars /\ LocalizerOnly
    \/ \E e \in Errors :
          fl_pc = "tracing" /\ FuncRaise(e) /\ UNCHANGED localizerVars /\ LocalizerOnly
    \/ fl_pc = "tracing" /\ FinishTrace /\ UNCHANGED localizerVars /\ LocalizerOnly
    \/ RecordTest /\ LocalizerOnly
    \/ Compute /\ UNCHANGED tracerVars /\ LocalizerOnly
    \/ MostSuspicious /\ UNCHANGED tracerVars /\ LocalizerOnly

SpecLocalizer == Init /\ [][LocalizerNext]_vars
\* C11: run_tests never lets an error of the callable under test leave it:
\* the test whose invocation raised is stored as failed with the error text as
\* its actual output, the loop goes on with the test case registered next, and
\* run_tests returns only after the last test case, every one having had its
\* session.
C11_RaisingTestIsIsolated ==
    [][/\ (fl_pc = "tracing" /\ fl_pc' # "tracing" /\ outcome.kind = "error") =>
             /\ run_outcome' # "raised"
             /\ test_cases'[test_i].passed = FALSE
             /\ test_cases'[test_i].actual_output = ExceptionText(outcome.err)
             /\ (test_i < Len(test_cases) => (fl_pc' = "invoke" /\ test_i' = test_i + 1))
       /\ (fl_pc # "idle" /\ fl_pc' = "idle") =>
             /\ run_outcome' = "returned"
             /\ test_i = Len(test_cases)
             /\ \A i \in 1..Len(test_cases) : sessions'[i].ran]_vars

\* run_tests has returned; the first of two test cases raised, the second ran
\* after it and returned
C11_Witness ==
    /\ fl_pc = "idle"
    /\ run_outcome = "returned"
    /\ Len(test_cases) = 2
    /\ sessions[1].ran /\ sessions[1].raised
    /\ test_cases[1].actual_output = ExceptionText("ValueError")
    /\ ~test_cases[1].passed
    /\ sessions[2].ran /\ ~sessions[2].raised
    /\ test_cases[2].actual_output.kind = "int"

\* C12: after run_tests every test case that was run, one whose invocation
\* raised included, has as covered_lines the statements of the 'line' events
\* of its own recorder session.
C12_CoveredIsOwnSession ==
    (fl_pc = "idle" /\ run_outcome = "returned") =>
        \A i \in 1..Len(test_cases) :
            sessions[i].ran => test_cases[i].covered_lines = sessions[i].lines

\* C13: after run_tests every test case is passing or failing, and one whose
\* invocation returned is passing exactly when its actual output equals its
\* expected output.
C13_PassedIffOutputsEqual ==
    (fl_pc = "idle" /\ run_outcome = "returned") =>
        \A i \in 1..Len(test_cases) :
            /\ test_cases[i].passed \in BOOLEAN
            /\ (sessions[i].ran /\ ~sessions[i].raised) =>
                   (test_cases[i].passed <=>
                        test_cases[i].actual_output = test_cases[i].expected_output)

\* two test cases have run and returned: one passes, the other returned
\* something else than expected and fails
C13_Witness ==
    /\ fl_pc = "idle"
    /\ run_outcome = "returned"
    /\ Len(test_cases) = 2
    /\ sessions[1].ran /\ ~sessions[1].raised /\ test_cases[1].passed
    /\ sessions[2].ran /\ ~sessions[2].raised /\ ~test_cases[2].passed
    /\ test_cases[2].actual_output # test_cases[2].expected_output
\* the last localizer operation returned a list of scores
ScoresReturned == fl_result.op \in {"compute", "most"}

C17_ScoresInRange ==
    ScoresReturned =>
        \A k \in 1..Len(fl_result.scores) :
            LET s == fl_result.scores[k]
            IN  /\ 0 <= s.tarantula_score.num
                /\ s.tarantula_score.num <= s.tarantula_score.den
                /\ 0 <= s.ochiai_score.num
                /\ s.ochiai_score.num * s.ochiai_score.num <= s.ochiai_score.radicand
                /\ 0 <= s.failed_count
                /\ s.failed_count <= TotalOf(test_cases, FALSE)
                /\ 0 <= s.passed_count
                /\ s.passed_count <= TotalOf(test_cases, TRUE)

\* a score of a line that a failing and a passing test case cover
C17_Witness ==
    /\ fl_result.op = "compute"
    /\ \E k \in 1..Len(fl_result.scores) :
          /\ fl_result.scores[k].failed_count >= 1
          /\ fl_result.scores[k].passed_count >= 1
          /\ fl_result.scores[k].tarantula_score.num > 0
          /\ fl_result.scores[k].ochiai_score.num > 0

\* C18: the list compute_suspiciousness returns is in non-increasing order of
\* Tarantula score, and entries of equal Tarantula score are in ascending
\* order of line number.
C18_SortedByTarantulaThenLine ==
    ScoresReturned =>
        \A i, j \in 1..Len(fl_result.scores) :
            i < j =>
                LET p == fl_result.scores[i].tarantula_score
                    q == fl_result.scores[j].tarantula_score
                IN  /\ p.num * q.den >= q.num * p.den
                    /\ p.num * q.den = q.num * p.den =>
                           fl_result.scores[i].line_number
                               < fl_result.scores[j].line_number

\* the sort has moved the higher line in front of the lower one
C18_Witness ==
    /\ fl_result.op = "compute"
    /\ Len(fl_result.scores) = 2
    /\ fl_result.scores[1].line_number > fl_result.scores[2].line_number
    /\ RatioLess(fl_result.scores[2].tarantula_score, fl_result.scores[1].tarantula_score)

\* C30: whenever compute_suspiciousness returns with a failing test case,
\* whatever test cases were added and however often run_tests ran, the list
\* holds one entry for every line in the covered_lines of some test case and
\* no other entry, and an entry's failed and passed counts are the numbers of
\* failing and passing test cases whose covered_lines hold its line.
C30_OneScorePerCoveredLine ==
    (ScoresReturned /\ TotalOf(test_cases, FALSE) >= 1) =>
        LET covered == UNION {test_cases[i].covered_lines : i \in 1..Len(test_cases)}
            scores  == fl_result.scores
        IN  /\ {scores[k].line_number : k \in 1..Len(scores)} = covered
            /\ \A j, k \in 1..Len(scores) :
                  j # k => scores[j].line_number # scores[k].line_number
            /\ \A k \in 1..Len(scores) :
                  /\ scores[k].failed_count =
                        Cardinality({i \in 1..Len(test_cases) :
                            /\ ~test_cases[i].passed
                            /\ scores[k].line_number \in test_cases[i].covered_lines})
                  /\ scores[k].passed_count =
                        Cardinality({i \in 1..Len(test_cases) :
                            /\ test_cases[i].passed
                            /\ scores[k].line_number \in test_cases[i].covered_lines})

(***************************************************************************)
(* Specification of the two score formulas: the counts are drawn at the    *)
(* start and the formulas are applied to them.                             *)
(***************************************************************************)
MaxCount == 4

CountInputs ==
    {Counts(nf, tf, np, tp) : nf \in 0..MaxCount, tf \in 0..MaxCount,
                              np \in 0..MaxCount, tp \in 0..MaxCount}

ScoresInit ==
    /\ TracerInit
    /\ IndexerInit
    /\ SlicerInit
    /\ LocalizerInit
    /\ counts \in {c \in CountInputs : /\ c.failed_covering <= c.total_failed
                                       /\ c.passed_covering <= c.total_passed}
    /\ score = NoScore
    /\ ClientInit
    /\ HookInit
    /\ HeldInit
    /\ AccountInit

ScoresOnly ==
    UNCHANGED <<tracerVars, indexerVars, slicerVars, localizerVars, clientVars,
                hookVars, resultVars, accountVars>>

ScoresNext ==
    \/ CallTarantula /\ ScoresOnly
    \/ CallOchiai /\ ScoresOnly

SpecScores == ScoresInit /\ [][ScoresNext]_vars

\* C15: for counts with failed_covering <= total_failed and passed_covering <=
\* total_passed the Tarantula score is fr / (fr + pr), where fr =
\* failed_covering / total_failed and pr = passed_covering / total_passed (0
\* when total_passed is 0); it is 0 when fr + pr is 0 or total_failed is 0.
C15_TarantulaFormula ==
    score.op = "tarantula" =>
        LET nf == counts.failed_covering
            tf == counts.total_failed
            np == counts.passed_covering
            tp == counts.total_passed
            v  == score.tarantula
        IN  IF tf = 0
            THEN v.num = 0
            ELSE IF tp = 0
            THEN \* pr = 0: fr / fr
                 IF nf = 0 THEN v.num = 0 ELSE v.num = v.den
            ELSE \* fr / (fr + pr) = nf * tp / (nf * tp + np * tf)
                 IF nf * tp + np * tf = 0
                 THEN v.num = 0
                 ELSE v.num * (nf * tp + np * tf) = v.den * (nf * tp)

\* (1/2) / ((1/2) + (1/3)) = 3/5
C15_Witness ==
    /\ score.op = "tarantula"
    /\ counts = Counts(1, 2, 1, 3)
    /\ score.tarantula.num = 3
    /\ score.tarantula.den = 5

\* C16: the Ochiai score v satisfies v^2 * total_failed * (failed_covering +
\* passed_covering) = failed_covering^2 with v >= 0; it is 0 whenever
\* failed_covering is 0, and 1 for failed_covering = 2, total_failed = 2,
\* passed_covering = 0.
C16_OchiaiFormula ==
    score.op = "ochiai" =>
        LET nf == counts.failed_covering
            tf == counts.total_failed
            np == counts.passed_covering
            v  == score.ochiai
        IN  /\ v.num >= 0
            /\ v.radicand > 0
            /\ v.num * v.num * tf * (nf + np) = nf * nf * v.radicand
            /\ nf = 0 => v.num = 0
            /\ (nf = 2 /\ tf = 2 /\ np = 0) => (v.num > 0 /\ v.num * v.num = v.radicand)

\* 2 / sqrt(2 * 2) = 1
C16_Witness ==
    /\ score.op = "ochiai"
    /\ counts.failed_covering = 2
    /\ counts.total_failed = 2
    /\ counts.passed_covering = 0
    /\ score.ochiai.num = 2
    /\ score.ochiai.radicand = 4
(***************************************************************************)
(* Specification of the demonstration of fault_localization.py: its five   *)
(* test cases are added in order, run_tests runs the test cases added so   *)
(* far on buggy_max, and the scores are asked for.                         *)
(***************************************************************************)
MaxFile == "fault_localization.py"

\* the line of "def buggy_max(a, b, c):"
MaxDefLine == 293

\* the line of "max_val = b  # BUG: Should be c, not b!"
MaxBugLine == MaxDefLine + 6

\* localizer.add_test_case(...) of lines 306-310
MaxTestCases ==
    << [name |-> "test1", input_args |-> <<1, 2, 3>>, expected_output |-> IntValue(3)],
       [name |-> "test2", input_args |-> <<5, 3, 1>>, expected_output |-> IntValue(5)],
       [name |-> "test3", input_args |-> <<2, 8, 4>>, expected_output |-> IntValue(8)],
       [name |-> "test4", input_args |-> <<1, 1, 5>>, expected_output |-> IntValue(5)],
       [name |-> "test5", input_args |-> <<3, 3, 3>>, expected_output |-> IntValue(3)] >>

MaxFrame(line, locals) ==
    [filename |-> MaxFile, f_lineno |-> line, co_name |-> "buggy_max", f_locals |-> locals]

\* The event the interpreter reports next for buggy_max(a, b, c), given the
\* events reported so far: a line event is reported before its statement
\* runs, so an assignment shows in f_locals from the next event on.
BuggyMaxNext(log, args) ==
    LET params == [n \in {"a", "b", "c"} |->
                      IF n = "a" THEN args[1] ELSE IF n = "b" THEN args[2] ELSE args[3]]
        last   == log[Len(log)]
        at     == last.line_number - MaxDefLine
        locals == last.local_vars
        Line(n, f_locals) == [event |-> "line", frame |-> MaxFrame(MaxDefLine + n, f_locals)]
    IN  IF log = <<>>
        THEN [event |-> "call", frame |-> MaxFrame(MaxDefLine, params)]
        ELSE IF last.event_type = "call"
        THEN Line(2, locals)                              \* max_val = a
        ELSE IF at = 2
        THEN Line(3, MapPut(locals, "max_val", locals["a"]))  \* if b > max_val:
        ELSE IF at = 3
        THEN IF locals["b"] > locals["max_val"]
             THEN Line(4, locals)                         \* max_val = b
             ELSE Line(5, locals)                         \* if c > max_val:
        ELSE IF at = 4
        THEN Line(5, MapPut(locals, "max_val", locals["b"]))
        ELSE IF at = 5
        THEN IF locals["c"] > locals["max_val"]
             THEN Line(6, locals)                         \* max_val = b  (the bug)
             ELSE Line(7, locals)                         \* return max_val
        ELSE IF at = 6
        THEN Line(7, MapPut(locals, "max_val", locals["b"]))
        ELSE [event |-> "return", frame |-> MaxFrame(MaxDefLine + 7, locals)]

BuggyMaxDone(log) ==
    IF log = <<>> THEN FALSE ELSE log[Len(log)].event_type = "return"

\* localizer.add_test_case(...): the next one of lines 306-310
AddMaxTest ==
    LET t == MaxTestCases[Len(test_cases) + 1]
    IN  /\ Len(test_cases) < Len(MaxTestCases)
        /\ AddTestCase(t.name, t.input_args, t.expected_output)

\* buggy_max runs on: the interpreter reports its next event to the hook
MaxStep ==
    LET next == BuggyMaxNext(trace_log, call_args)
    IN  /\ fl_pc = "tracing"
        /\ pc = "running"
        /\ ~BuggyMaxDone(trace_log)
        /\ HookWhileRunning(next.frame, next.event)

\* buggy_max returns max_val
MaxReturn ==
    /\ fl_pc = "tracing"
    /\ pc = "running"
    /\ BuggyMaxDone(trace_log)
    /\ FuncReturn(trace_log[Len(trace_log)].local_vars["max_val"])

MaxNext ==
    \/ AddMaxTest /\ UNCHANGED tracerVars /\ LocalizerOnly
    \/ RunTests /\ UNCHANGED tracerVars /\ LocalizerOnly
    \/ InvokeTest /\ LocalizerOnly
    \/ MaxStep /\ UNCHANGED localizerVars /\ LocalizerOnly
    \/ MaxReturn /\ UNCHANGED localizerVars /\ LocalizerOnly
    \/ fl_pc = "tracing" /\ FinishTrace /\ UNCHANGED localizerVars /\ LocalizerOnly
    \/ RecordTest /\ LocalizerOnly
    \/ Compute /\ UNCHANGED tracerVars /\ LocalizerOnly
    \/ MostSuspicious /\ UNCHANGED tracerVars /\ LocalizerOnly

SpecMax == Init /\ [][MaxNext]_vars

\* the entries of the returned list for lines that every test case covers
CoveredByAll(s) ==
    /\ s.failed_count = TotalOf(test_cases, FALSE)
    /\ s.passed_count = TotalOf(test_cases, TRUE)

\* whenever a test case passes and one fails, an entry covered by a failing
\* test case and by no passing one has a higher Tarantula score than any entry
\* covered by every test case
FailingOnlyAboveCoveredByAll ==
    (/\ ScoresReturned
     /\ TotalOf(test_cases, FALSE) >= 1
     /\ TotalOf(test_cases, TRUE) >= 1) =>
        \A i, j \in 1..Len(fl_result.scores) :
            LET s == fl_result.scores[i]
                t == fl_result.scores[j]
            IN  (s.failed_count >= 1 /\ s.passed_count = 0 /\ CoveredByAll(t)) =>
                    t.tarantula_score.num * s.tarantula_score.den
                        < s.tarantula_score.num * t.tarantula_score.den

\* the five test cases of the demonstration have been added and run
MaxDemoRan ==
    /\ Len(test_cases) = Len(MaxTestCases)
    /\ \A i \in 1..Len(test_cases) : sessions[i].ran

\* C19: with the five test cases of the demonstration run on buggy_max, the
\* list has an entry for the buggy line whose Tarantula score is higher than
\* that of every line all five test cases executed; and in general an entry
\* covered by failing test cases only scores higher than one covered by every
\* test case.
C19_BuggyLineAboveAlwaysCovered ==
    /\ (ScoresReturned /\ MaxDemoRan) =>
          \E k \in 1..Len(fl_result.scores) :
              LET bug == fl_result.scores[k]
              IN  /\ bug.line_number = MaxBugLine
                  /\ \A j \in 1..Len(fl_result.scores) :
                        LET t == fl_result.scores[j]
                        IN  (\A i \in 1..Len(test_cases) :
                                 t.line_number \in test_cases[i].covered_lines) =>
                                t.tarantula_score.num * bug.tarantula_score.den
                                    < bug.tarantula_score.num * t.tarantula_score.den
    /\ FailingOnlyAboveCoveredByAll

\* the demonstration's result: the buggy line first with score 1, and the
\* line of "max_val = a", which all five test cases execute, with score 1/2
C19_Witness ==
    /\ fl_result.op = "compute"
    /\ MaxDemoRan
    /\ fl_result.scores[1].line_number = MaxBugLine
    /\ fl_result.scores[1].tarantula_score = Ratio(1, 1)
    /\ \E j \in 1..Len(fl_result.scores) :
          /\ fl_result.scores[j].line_number = MaxDefLine + 2
          /\ CoveredByAll(fl_result.scores[j])
          /\ fl_result.scores[j].tarantula_score = Ratio(1, 2)
\* C20 as stated: in every list compute_suspiciousness returns, an entry that
\* every test case covers has Tarantula score 1/2.
C20_CoveredByAllScoresHalf ==
    ScoresReturned =>
        \A k \in 1..Len(fl_result.scores) :
            LET s == fl_result.scores[k]
            IN  CoveredByAll(s) => s.tarantula_score.num * 2 = s.tarantula_score.den

\* C20, amended: an entry that every test case covers has Tarantula score 1/2
\* when at least one test case passes, and 1 when none does.
C20_CoveredByAllScoresHalfIfSomePass ==
    ScoresReturned =>
        \A k \in 1..Len(fl_result.scores) :
            LET s == fl_result.scores[k]
            IN  CoveredByAll(s) =>
                    IF TotalOf(test_cases, TRUE) > 0
                    THEN s.tarantula_score.num * 2 = s.tarantula_score.den
                    ELSE s.tarantula_score.num = s.tarantula_score.den

\* a failing and a passing test case cover the same line, which scores 1/2
C20_Witness ==
    /\ fl_result.op = "compute"
    /\ TotalOf(test_cases, TRUE) = 1
    /\ TotalOf(test_cases, FALSE) = 1
    /\ \E k \in 1..Len(fl_result.scores) :
          /\ CoveredByAll(fl_result.scores[k])
          /\ fl_result.scores[k].tarantula_score = Ratio(1, 2)

(***************************************************************************)
(* Specification of the Tracer's queries: sessions of trace_execution on   *)
(* one Tracer, with get_executed_lines asked between them.                 *)
(***************************************************************************)
MaxQueryEvents == 2

QueryFrames == Frames({UserFile}, {1, 2}, {"f"}, LocalsOver({"a"}, {0}))

\* the indexer, the slicer and the fault localizer take no part
ClientsOnly ==
    UNCHANGED <<indexerVars, slicerVars, localizerVars, scoreVars,
                hookVars, resultVars, accountVars>>

QueriesNext ==
    \/ StartTrace(<<>>) /\ UNCHANGED clientVars /\ ClientsOnly
    \/ \E frame \in QueryFrames, event \in Events :
          /\ Len(trace_log) < MaxQueryEvents
          /\ HookWhileRunning(frame, event)
          /\ UNCHANGED clientVars
          /\ ClientsOnly
    \/ \E r \in Results : FuncReturn(r) /\ UNCHANGED clientVars /\ ClientsOnly
    \/ \E e \in Errors : FuncRaise(e) /\ UNCHANGED clientVars /\ ClientsOnly
    \/ FinishTrace /\ UNCHANGED clientVars /\ ClientsOnly
    \/ GetLines /\ UNCHANGED tracerVars /\ ClientsOnly

SpecQueries == Init /\ [][QueriesNext]_vars

\* the indices of the 'line' events of a trace
LineEventIndices(log) == {i \in 1..Len(log) : log[i].event_type = "line"}

\* the index of the first 'line' event of the trace at the given line
FirstVisit(log, line) ==
    CHOOSE i \in LineEventIndices(log) :
        /\ log[i].line_number = line
        /\ \A j \in LineEventIndices(log) : log[j].line_number = line => i <= j

\* C21: the list get_executed_lines returns holds every line visited by a
\* 'line' event once and no more than once, also when the line was visited
\* several times, in the order of the first visits.
C21_ExecutedLinesDistinct ==
    [][executed_lines' # executed_lines =>
          LET lines == executed_lines'.lines
          IN  /\ Range(lines) = {trace_log[i].line_number : i \in LineEventIndices(trace_log)}
              /\ \A i, j \in 1..Len(lines) :
                    i < j => /\ lines[i] # lines[j]
                             /\ FirstVisit(trace_log, lines[i])
                                    < FirstVisit(trace_log, lines[j])]_vars

\* C22: the k-th entry of the list get_executed_lines returns is the line of
\* the k-th 'line' event of the trace: the entries follow the order of the
\* events they come from, and no entry comes from a call, return or exception
\* event.
C22_ExecutedLinesFollowEvents ==
    [][executed_lines' # executed_lines =>
          LET lines == executed_lines'.lines
              idx   == LineEventIndices(trace_log)
          IN  /\ Len(lines) = Cardinality(idx)
              /\ \A i \in idx :
                    lines[Cardinality({j \in idx : j <= i})] = trace_log[i].line_number]_vars

\* the trace holds a call event at one line and a 'line' event at the other;
\* the list returned holds the line of the 'line' event alone
C22_Witness ==
    /\ pc = "idle"
    /\ executed_lines.op = "get_executed_lines"
    /\ Len(trace_log) = 2
    /\ trace_log[1].event_type = "call"
    /\ trace_log[2].event_type = "line"
    /\ trace_log[1].line_number # trace_log[2].line_number
    /\ executed_lines.lines = <<trace_log[2].line_number>>

\* C23: start_trace leaves the trace and previous_locals empty, whatever an
\* earlier session on the same Tracer left in them, and the first event a
\* session records tags every name of its locals as written and none as read.
C23_SessionStartsEmpty ==
    [][/\ (pc = "idle" /\ pc' = "running") =>
             /\ trace_log' = <<>>
             /\ previous_locals' = EmptyMap
       /\ (trace_log = <<>> /\ Len(trace_log') = 1) =>
             LET first == trace_log'[1]
             IN  /\ \A n \in DOMAIN first.local_vars :
                       AccessTag("write", n) \in Range(first.memory_access)
                 /\ \A t \in Range(first.memory_access) : t[1] # "read"]_vars

\* A session that recorded 'line' events is over and its lines were asked
\* for; the same Tracer is in a later session, whose first event holds a with
\* the value 0 and tags it as written.
C23_Witness ==
    /\ executed_lines.op = "get_executed_lines"
    /\ executed_lines.lines # <<>>
    /\ pc = "running"
    /\ Len(trace_log) = 1
    /\ trace_log[1].local_vars = [n \in {"a"} |-> 0]
    /\ trace_log[1].memory_access = <<AccessTag("write", "a")>>

(***************************************************************************)
(* Specification of two Tracer objects: the callable traced by the first   *)
(* one runs a session on the second one.  MaxNestedEvents bounds the       *)
(* events held by the two traces together.                                 *)
(***************************************************************************)
MaxNestedEvents == 3

\* frames of the traced callable f and of the callable g it traces in turn
OuterFrames == Frames({UserFile}, {1}, {"f"}, {EmptyMap})

InnerFrames == Frames({UserFile}, {2}, {"g"}, {EmptyMap})

InnerEvents == {"call", "line", "return"}

NestedRoom == Len(trace_log) + Len(inner.trace_log) < MaxNestedEvents

NestedNext ==
    \/ StartTrace(<<>>) /\ UNCHANGED clientVars /\ ClientsOnly
    \/ \E frame \in OuterFrames, event \in {"call", "line"} :
          /\ NestedRoom
          /\ HookWhileRunning(frame, event)
          /\ UNCHANGED clientVars
          /\ ClientsOnly
    \/ ~inner.is_tracing /\ InnerStartTrace /\ ClientsOnly
    \/ \E frame \in InnerFrames, event \in InnerEvents :
          NestedRoom /\ InnerTraceFunction(frame, event) /\ ClientsOnly
    \/ \E frame \in OuterFrames : NestedRoom /\ OuterLocalTrace(frame) /\ ClientsOnly
    \/ InnerStopTrace /\ ClientsOnly
    \/ \E r \in Results : FuncReturn(r) /\ UNCHANGED clientVars /\ ClientsOnly
    \/ FinishTrace /\ UNCHANGED clientVars /\ ClientsOnly

SpecNested == Init /\ [][NestedNext]_vars

\* C24: at no time are two Tracer objects both in a session that was begun
\* and not ended.
C24_SessionsNeverOverlap == ~(is_tracing /\ inner.is_tracing)


(***************************************************************************)
(* The access tags of the events recorded (checked under SpecTracer)       *)
(***************************************************************************)
\* C31: in every recorded event each name of the event's locals carries
\* exactly one tag, a write when the previous event's locals (none before
\* the first event) lack the name or hold another value for it, a read when
\* they hold an equal value; and every tag names a local of the event, so a
\* name that is gone carries none.
C31_TagsPartitionLocals ==
    \A k \in 1..Len(trace_log) :
        LET current == trace_log[k].local_vars
            prev    == IF k = 1 THEN EmptyMap ELSE trace_log[k - 1].local_vars
            tags    == trace_log[k].memory_access
        IN  /\ \A n \in DOMAIN current :
                   LET mine    == {i \in 1..Len(tags) : tags[i][2] = n}
                       changed == IF n \in DOMAIN prev THEN prev[n] # current[n] ELSE TRUE
                   IN  /\ Cardinality(mine) = 1
                       /\ \A i \in mine :
                              tags[i][1] = IF changed THEN "write" ELSE "read"
            /\ \A i \in 1..Len(tags) : tags[i][2] \in DOMAIN current

\* a trace whose second event holds a with the value of the first event
C31_Witness ==
    /\ Len(trace_log) = 2
    /\ trace_log[1].local_vars = [n \in {"a"} |-> 1]
    /\ trace_log[1].memory_access = <<AccessTag("write", "a")>>
    /\ trace_log[2].local_vars = [n \in {"a"} |-> 1]
    /\ trace_log[2].memory_access = <<AccessTag("read", "a")>>

(***************************************************************************)
(* Specification of the calls of trace_function: the interpreter calls the *)
(* hook during a session, for frames of user files, of tracer_engine.py    *)
(* and of synthetic units, and a caller calls it outside of a session.     *)
(***************************************************************************)
MaxHookEvents == 2

HookFrames ==
    Frames({UserFile, TracerFile, SyntheticFile}, {1}, {"f"},
           LocalsOver({"a"}, {0, 1}))

HookOnly ==
    UNCHANGED <<indexerVars, slicerVars, localizerVars, scoreVars, clientVars,
                resultVars, accountVars>>

HookNext ==
    \/ StartTrace(<<>>) /\ UNCHANGED hookVars /\ HookOnly
    \/ \E frame \in HookFrames, event \in Events :
          /\ Len(trace_log) < MaxHookEvents
          /\ HookWhileRunning(frame, event)
          /\ NoteHook(frame)
          /\ HookOnly
    \/ \E frame \in HookFrames :
          /\ HookWhileStopping(frame)
          /\ NoteHook(frame)
          /\ HookOnly
    \/ \E frame \in HookFrames :
          /\ CallTraceFunction(frame, "line")
          /\ NoteHook(frame)
          /\ HookOnly
    \/ \E r \in Results : FuncReturn(r) /\ UNCHANGED hookVars /\ HookOnly
    \/ \E e \in Errors : FuncRaise(e) /\ UNCHANGED hookVars /\ HookOnly
    \/ FinishTrace /\ UNCHANGED hookVars /\ HookOnly

SpecHook == Init /\ [][HookNext]_vars

\* C32: a call of trace_function for a frame of tracer_engine.py or of a
\* synthetic unit, and any call made while is_tracing is off, leaves the
\* trace and previous_locals as they were; previous_locals are therefore
\* the locals of the last event recorded, and every event after the first
\* carries the tags of its locals against those of the event before it.
C32_SkippedCallsChangeNothing ==
    /\ [][(/\ last_hook'.tick # last_hook.tick
            /\ \/ last_hook'.filename \in {TracerFile, SyntheticFile}
               \/ ~last_hook'.tracing)
              => /\ trace_log' = trace_log
                 /\ previous_locals' = previous_locals]_vars
    /\ [](/\ trace_log # <<>> => previous_locals = trace_log[Len(trace_log)].local_vars
          /\ \A k \in 2..Len(trace_log) :
                 trace_log[k].memory_access =
                     DetectMemoryAccess(trace_log[k - 1].local_vars,
                                        trace_log[k].local_vars))

\* during a session that has recorded one event, the hook was called last
\* for a frame of a synthetic unit
C32_Witness ==
    /\ pc = "running"
    /\ is_tracing
    /\ last_hook.filename = SyntheticFile
    /\ last_hook.tracing
    /\ Len(trace_log) = 1
    /\ trace_log[1].filename = UserFile
    /\ previous_locals = trace_log[1].local_vars


(***************************************************************************)
(* Specification of a caller that keeps the results of its queries: traces *)
(* of a callable with a parameter b and a local a are recorded and sliced  *)
(* on one DynamicSlicer, and the caller keeps a result while it asks on.   *)
(* MaxResultEvents bounds the events held by the trace being recorded and  *)
(* the trace of the last query together.                                   *)
(***************************************************************************)
MaxResultEvents == 2

ResultsFrame ==
    UNCHANGED <<indexerVars, localizerVars, scoreVars, clientVars, hookVars,
                accountVars>>

ResultsNext ==
    \/ /\ spc = "idle"
       /\ StartTrace(<<>>)
       /\ UNCHANGED <<slicerVars, resultVars>>
       /\ ResultsFrame
    \/ \E frame \in GateFrames, event \in WalkEvents :
          /\ Len(trace_log) + Len(query.execution_trace) < MaxResultEvents
          /\ HookWhileRunning(frame, event)
          /\ UNCHANGED <<slicerVars, resultVars>>
          /\ ResultsFrame
    \/ FuncReturn(0) /\ UNCHANGED <<slicerVars, resultVars>> /\ ResultsFrame
    \/ FinishTrace /\ UNCHANGED <<slicerVars, resultVars>> /\ ResultsFrame
    \/ \E target_line \in SliceLines, target_var \in SliceNames :
          /\ SliceTrace(target_line, target_var)
          /\ RebindWorkingSets
          /\ UNCHANGED tracerVars
          /\ ResultsFrame
    \/ TraverseStep /\ WalkOnWorkingSets /\ UNCHANGED tracerVars /\ ResultsFrame
    \/ KeepResult /\ UNCHANGED <<tracerVars, slicerVars>> /\ ResultsFrame

SpecResults == Init /\ [][ResultsNext]_vars

RECURSIVE BackwardTraverse(_, _, _)
\* _backward_traverse(trace, i) on working sets st, run to its end
BackwardTraverse(st, trace, i) ==
    IF i < 0
    THEN st
    ELSE BackwardTraverse(TraverseEvent(st, trace[i + 1]), trace, i - 1)

\* DynamicSlicer().compute_dynamic_slice(execution_trace, target_line,
\* target_var): the query asked of a slicer that was never asked before
FirstQueryResult(q) ==
    LET idx == FindTargetEvent(q.execution_trace, q.target_line, q.target_var)
        st  == BackwardTraverse([relevant_lines        |-> {},
                                 variables_of_interest |-> {q.target_var},
                                 data_deps             |-> EmptyMap,
                                 control_deps          |-> EmptyMap],
                                q.execution_trace, idx)
    IN  IF idx = NoneIdx
        THEN SliceResult(q.target_line, q.target_var, {}, EmptyMap, EmptyMap)
        ELSE SliceResult(q.target_line, q.target_var,
                         st.relevant_lines, st.data_deps, st.control_deps)

\* C33: no step of a later compute_dynamic_slice on the same slicer, found
\* or not, on the same trace or another one, changes a SliceResult the
\* caller keeps; and the result a query returns is the one a slicer never
\* asked before returns for it.
C33_ResultsKeptApart ==
    /\ [][slicerVars' # slicerVars => held' = held]_vars
    /\ []((spc = "idle" /\ query # NoQuery) => slice_result = FirstQueryResult(query))

\* the caller keeps a result with a dependency of a on b at statement 1, and
\* a later query on the slicer has returned another, non-empty result
C33_Witness ==
    /\ spc = "idle"
    /\ ~held_shared
    /\ held.relevant_lines = {1}
    /\ held.data_dependencies = [l \in {1} |-> {"b"}]
    /\ slice_result.relevant_lines # {}
    /\ slice_result # held


(***************************************************************************)
(* The events a slice is drawn from (checked under SpecGate)               *)
(***************************************************************************)
\* C34: when a found query has returned, every statement of the relevant
\* set is the statement of an event at an index up to the target event's,
\* and every key of the data-dependency map is in the relevant set; the
\* same holds of the working sets while the walk is under way.
C34_SliceWithinTargetPrefix ==
    (query # NoQuery /\ target_event_idx # NoneIdx)
        => LET upto == {query.execution_trace[i + 1].line_number :
                           i \in 0..target_event_idx}
           IN  /\ relevant_lines \subseteq upto
               /\ DOMAIN data_deps \subseteq relevant_lines
               /\ spc = "idle"
                    => /\ slice_result.relevant_lines \subseteq upto
                       /\ DOMAIN slice_result.data_dependencies
                              \subseteq slice_result.relevant_lines

\* a found query has returned whose target is the first event, at statement
\* 1, of a trace that goes on with a line event at statement 2 that reads
\* the target variable
C34_Witness ==
    /\ spc = "idle"
    /\ target_event_idx = 0
    /\ Len(query.execution_trace) >= 2
    /\ query.execution_trace[2].line_number = 2
    /\ query.execution_trace[2].event_type = "line"
    /\ AccessTag("read", query.target_var) \in Range(query.execution_trace[2].memory_access)
    /\ slice_result.relevant_lines = {1}
    /\ DOMAIN slice_result.data_dependencies = {1}


(***************************************************************************)
(* Specification of the runs of heisenbug_demo.py: a run creates a         *)
(* BankAccount and up to MaxThreads threads that each call transfer once,  *)
(* with or without the lock; the threads' steps interleave freely.         *)
(***************************************************************************)
MaxThreads == 4

Amounts == {DefaultAmount}

AccountOnly ==
    UNCHANGED <<tracerVars, indexerVars, slicerVars, localizerVars, scoreVars,
                clientVars, hookVars, resultVars>>

AccountNext ==
    \/ \E num_threads \in 1..MaxThreads, amount \in Amounts, with_lock \in BOOLEAN :
          RunExecution(num_threads, amount, with_lock) /\ AccountOnly
    \/ StartThread /\ AccountOnly
    \/ \E t \in DOMAIN threads : Transfer(t) /\ AccountOnly
    \/ \E t \in DOMAIN threads : ReadBalance(t) /\ AccountOnly
    \/ \E t \in DOMAIN threads : WriteBalance(t) /\ AccountOnly
    \/ \E t \in DOMAIN threads : LogTransaction(t) /\ AccountOnly
    \/ \E t \in DOMAIN threads : ReleaseLock(t) /\ AccountOnly
    \/ JoinThreads /\ AccountOnly

SpecAccount == Init /\ [][AccountNext]_vars

\* every thread of the run has left transfer
AllTransfersDone ==
    /\ threads # <<>>
    /\ \A t \in DOMAIN threads : threads[t].pc = "done"

\* the threads between the read of the balance and the end of
\* _unsafe_transfer
InReadModifyWrite == {t \in DOMAIN threads : threads[t].pc \in {"read", "write", "log"}}

\* the entries of the log written by thread t
EntriesOf(t) == {k \in 1..Len(transaction_log) : transaction_log[k].thread_name = t}

\* C35: in a run with use_lock, whatever the number of threads and the
\* interleaving, at most one thread is inside the read-modify-write at a
\* time, and it holds the lock; once all transfers have finished the balance
\* is the initial balance minus the number of transfers times the amount
\* and the log has exactly one entry per transfer.
C35_LockedTransfersAllCount ==
    use_lock
        => /\ Cardinality(InReadModifyWrite) <= 1
           /\ InReadModifyWrite \subseteq lock
           /\ AllTransfersDone
                => /\ balance = InitialBalance - Len(threads) * threads[1].amount
                   /\ Len(transaction_log) = Len(threads)
                   /\ \A t \in DOMAIN threads : Cardinality(EntriesOf(t)) = 1

\* a run of three threads with the lock has returned, the second thread
\* having withdrawn before the first one
C35_Witness ==
    /\ use_lock
    /\ run_pc = "done"
    /\ Len(threads) = 3
    /\ balance = InitialBalance - 3 * DefaultAmount
    /\ transaction_log[1].thread_name = 2
    /\ lock = {}

\* C36: in a run of two threads without the lock, once both transfers have
\* finished, the balance is the initial balance minus one amount when both
\* threads read the same balance, and the initial balance minus two amounts
\* otherwise; the interleaving in which both read the same balance exists.
C36_SameReadLosesUpdate ==
    (~use_lock /\ Len(threads) = 2 /\ AllTransfersDone /\ Len(transaction_log) = 2)
        => LET amount == threads[1].amount
               same   == transaction_log[1].current_balance
                             = transaction_log[2].current_balance
           IN  balance = IF same
                         THEN InitialBalance - amount
                         ELSE InitialBalance - 2 * amount

\* a run of two threads without the lock has returned: both threads read
\* the initial balance and one withdrawal is lost
C36_Witness ==
    /\ ~use_lock
    /\ run_pc = "done"
    /\ Len(threads) = 2
    /\ Len(transaction_log) = 2
    /\ transaction_log[1].current_balance = InitialBalance
    /\ transaction_log[2].current_balance = InitialBalance
    /\ transaction_log[1].thread_name # transaction_log[2].thread_name
    /\ balance = InitialBalance - DefaultAmount

\* C37: in a run of n threads without the lock, whatever the interleaving,
\* once all transfers have finished the balance is the initial balance
\* minus k amounts for some k from 1 to n, and the log has one entry per
\* transfer.
C37_LostUpdatesBounded ==
    (~use_lock /\ AllTransfersDone)
        => /\ \E k \in 1..Len(threads) :
                  balance = InitialBalance - k * threads[1].amount
           /\ Len(transaction_log) = Len(threads)
           /\ \A t \in DOMAIN threads : Cardinality(EntriesOf(t)) = 1

\* a run of three threads without the lock has returned with two of the
\* three withdrawals in the balance
C37_Witness ==
    /\ ~use_lock
    /\ run_pc = "done"
    /\ Len(threads) = 3
    /\ Len(transaction_log) = 3
    /\ balance = InitialBalance - 2 * DefaultAmount

=============================================================================
